---- MODULE Spec2Model ----
(***************************************************************************)
(* Model of the times-backend content API (src/index.js): one JSON file    *)
(* (data.json) holding every collection, rewritten wholesale by each       *)
(* mutating handler, with uploads to the media host as the only points at  *)
(* which two requests can interleave.                                      *)
(*                                                                         *)
(* Representation.                                                         *)
(*  - A JavaScript object is a TLA+ record whose domain is the set of keys *)
(*    it has.  Reading a key an object lacks yields `undefined` (Get).     *)
(*  - JSON.stringify drops every key whose value is undefined; JsonRecord  *)
(*    does the same, so what is read back from the file lacks those keys.  *)
(*  - Date.now() and new Date() are read from the clock `now`, which       *)
(*    advances by Tick between handler steps; an ISO timestamp is          *)
(*    represented by the millisecond count it renders.                     *)
(*  - Node runs a handler without interruption until it awaits; the only   *)
(*    awaits of these handlers are the uploads.  Each action below is one  *)
(*    such uninterrupted step.                                             *)
(***************************************************************************)
EXTENDS Integers, Sequences, FiniteSets, TLC

\* ---------------------------------------------------------------- bounds
\* The clock runs over 1..MaxClock.
MaxClock == 2
\* Requests that may be in flight at the same time.
NumProcs == 2
\* Requests started in one behaviour of the workloads that draw from the handlers.
MaxReqs == 2
\* Requests started in one behaviour of the news workload.
CrudReqs == 3
\* Requests started in one behaviour of the activity-log workload.
MaxLogged == 51

\* ------------------------------------------------------ program constants
\* logActivity keeps data.activities.slice(0, 50).
ActivityCap == 50
\* GET /api/posters pads the list while posters.length < 3; POST writes 3.
PosterSlots == 3

VARIABLES
  dataFile,  \* data.json: <<>> when the file does not exist, else <<document>>
  now,       \* the wall clock in milliseconds
  req,       \* req[p]: the request slot p is handling, or Idle
  last,      \* the request answered most recently, with its response
  hist,      \* every activity logActivity has recorded, newest first
  overlap,   \* TRUE once a request has started while another was in flight
  left,      \* the workload: requests that may still arrive
  serial     \* the workload: TRUE when requests arrive one at a time

vars == <<dataFile, now, req, last, hist, overlap, left, serial>>

Procs == 1..NumProcs

\* ---------------------------------------------------------------- values
undefined == "undefined"

Get(obj, k) == IF k \in DOMAIN obj THEN obj[k] ELSE undefined

\* JavaScript truthiness of a string-or-undefined value.
Truthy(v) == v # undefined /\ v # ""

\* a || b
Or(a, b) == IF Truthy(a) THEN a ELSE b

\* { ...obj, ...changes }
Spread(obj, changes) == changes @@ obj

\* Keys whose values are numbers or booleans in every record that has them.
NonStringKeys == {"id", "timestamp", "priority", "active"}

Take(s, n) == SubSeq(s, 1, IF Len(s) < n THEN Len(s) ELSE n)

\* array.findIndex(x => x.id === id): the first index, 0 for -1.
FindIndex(seq, id) ==
  IF \E i \in 1..Len(seq) : seq[i].id = id
    THEN CHOOSE i \in 1..Len(seq) :
           seq[i].id = id /\ \A j \in 1..(i - 1) : seq[j].id # id
    ELSE 0

\* array.splice(idx, 1)
Splice(seq, idx) == SubSeq(seq, 1, idx - 1) \o SubSeq(seq, idx + 1, Len(seq))

\* Mutant: the updated record is moved to the front.
MoveToFront(seq, idx, x) == <<x>> \o SubSeq(seq, 1, idx - 1) \o SubSeq(seq, idx + 1, Len(seq))

\* array[idx] = x
ReplaceAt(seq, idx, x) == [seq EXCEPT ![idx] = x]

\* ------------------------------------------------- JSON (src/index.js:121,125)
\* JSON.parse(JSON.stringify(obj)) of one flat record: keys holding undefined
\* are not written, so they are absent when the text is parsed again.
JsonRecord(obj) ==
  [k \in {x \in DOMAIN obj : x \in NonStringKeys \/ obj[x] # undefined} |-> obj[k]]

JsonArray(seq) == [i \in 1..Len(seq) |-> JsonRecord(seq[i])]

\* The Activity records hold only defined values (the title is a template
\* string), so they are written as they are.
JsonDocument(data) ==
  [c \in DOMAIN data |->
     IF c = "activities" THEN data[c] ELSE JsonArray(data[c])]

\* ---------------------------------------------------------- document store
EmptyDocument ==
  [posters |-> <<>>, breakingNews |-> <<>>, featuredStories |-> <<>>,
   categories |-> <<>>, users |-> <<>>, media |-> <<>>, news |-> <<>>,
   staticPages |-> <<>>, tickers |-> <<>>, tools |-> <<>>, ads |-> <<>>]

readData(disk) == IF disk = <<>> THEN EmptyDocument ELSE disk[1]

writeData(data) == <<JsonDocument(data)>>

\* data.<c> || []
Coll(data, c) == IF c \in DOMAIN data THEN data[c] ELSE <<>>

\* ------------------------------------------------------------ activity log
\* `${title.substring(0, 50)}${title.length > 50 ? '...' : ''}`: the titles of
\* the workloads are shorter than 50 characters except LongTitle.
LongTitle == "a title of fifty-one characters"
LongTitleCut == "the first fifty characters of it..."
Substring50(title) == IF title = LongTitle THEN LongTitleCut ELSE title

\* Mutant: the log is not cut to its first 50 records.
logActivityUncut(disk, type, what, title, status, t) ==
  LET data == readData(disk)
      activity == [id |-> t, type |-> type,
                   title |-> [text |-> what, quoted |-> Substring50(title)],
                   user |-> "Admin User", status |-> status, timestamp |-> t]
      kept == <<activity>> \o Coll(data, "activities")
  IN [disk |-> writeData(("activities" :> kept) @@ data), activity |-> activity]

\* logActivity(type, title, user, status) at time t on the file `disk`:
\* the file it leaves and the record it returns.
logActivity(disk, type, what, title, status, t) ==
  LET data == readData(disk)
      activity == [id |-> t, type |-> type,
                   title |-> [text |-> what, quoted |-> Substring50(title)],
                   user |-> "Admin User", status |-> status, timestamp |-> t]
      kept == Take(<<activity>> \o Coll(data, "activities"), ActivityCap)
  IN [disk |-> writeData(("activities" :> kept) @@ data), activity |-> activity]

\* ---------------------------------------------------------- upload gateway
SecureUrl(folder) ==
  CASE folder = "posters" -> "https://cdn/posters/img"
    [] folder = "breaking-news" -> "https://cdn/breaking-news/video"
    [] folder = "breaking-news-thumbnails" -> "https://cdn/breaking-news-thumbnails/img"
    [] folder = "featured-stories" -> "https://cdn/featured-stories/img"
    [] folder = "media" -> "https://cdn/media/file"
    [] folder = "news" -> "https://cdn/news/img"
    [] folder = "ads" -> "https://cdn/ads/img"

\* await uploadToCloudinary(file, folder), as the media host settles it: the
\* secure_url it returns, or the Error it throws.
uploadToCloudinary(folder, ok) ==
  IF ok
    THEN [ok |-> TRUE, url |-> SecureUrl(folder)]
    ELSE [ok |-> FALSE, message |-> "Failed to upload to Cloudinary: cause"]

\* ------------------------------------------------------- results of a step
\* A handler step either answers the request (Done) or stops at an await.
\* writes counts the calls of writeData, logged lists what logActivity returned,
\* uploadFailed tells that the step is the catch of a failed upload, gateway
\* describes the uploadToCloudinary call the step resumed from (<<>> if none),
\* sent counts the responses the path has sent (res.json / res.status().json).
Done(disk, status, body, writes, logged) ==
  [k |-> "done", disk |-> disk, status |-> status, body |-> body,
   writes |-> writes, logged |-> logged, uploadFailed |-> FALSE, gateway |-> <<>>,
   sent |-> 1]

Await(st) == [k |-> "await", st |-> st]

Idle == [pc |-> "idle"]

\* The locals of a handler stopped at an upload: the snapshot it loaded (or
\* <<>> when it has not loaded yet), the uploads still to make, in order, the
\* URLs of those made, the fields whose file is in the staging directory
\* (uploads/, where the middleware stored every file of the request), and the
\* uploadToCloudinary call it resumed from last.
Locals(h, in, data, todo) ==
  [pc |-> "await", h |-> h, in |-> in, data |-> data, todo |-> todo, urls |-> <<>>,
   staged |-> in.files, gateway |-> <<>>]

\* ------------------------------------------------------------ breaking news
BnFolder(field) ==
  IF field = "video" THEN "breaking-news" ELSE "breaking-news-thumbnails"

\* The uploads of the breaking-news handlers in the order they are awaited:
\* filesByField.video[0], then filesByField.thumbnail[0].
BnUploads(files) ==
  (IF "video" \in files THEN <<"video">> ELSE <<>>)
    \o (IF "thumbnail" \in files THEN <<"thumbnail">> ELSE <<>>)

\* Mutant: the catch of a failed upload saves the document before answering.
BnUploadFailedSaves(st, field, message, disk) ==
  Done(writeData(st.data), 500,
       [error |-> IF field = "video" THEN "Failed to upload video"
                                     ELSE "Failed to upload thumbnail",
        details |-> message], 1, <<>>)

BnUploadFailed(st, field, message, disk) ==
  Done(disk, 500,
       [error |-> IF field = "video" THEN "Failed to upload video"
                                     ELSE "Failed to upload thumbnail",
        details |-> message], 0, <<>>)

\* POST /api/breaking-news from its uploads on, on the document `data`.
PostBreakingNewsSave(st, data, t) ==
  LET body == st.in.body
      videoUrl == IF "video" \in DOMAIN st.urls THEN st.urls["video"] ELSE ""
      thumbnailUrl == IF "thumbnail" \in DOMAIN st.urls THEN st.urls["thumbnail"] ELSE ""
      newNews == [id |-> t,
                  headline |-> Get(body, "headline"),
                  shortDescription |-> Get(body, "shortDescription"),
                  fullDescription |-> Get(body, "fullDescription"),
                  category |-> Get(body, "category"),
                  state |-> Get(body, "state"),
                  videoUrl |-> videoUrl,
                  thumbnail |-> Or(thumbnailUrl, ""),
                  youtubeUrl |-> Or(Get(body, "youtubeUrl"), ""),
                  timestamp |-> t]
      data2 == [data EXCEPT !.breakingNews = <<newNews>> \o @]
  IN Done(writeData(data2), 200, JsonRecord(newNews), 1, <<>>)

\* Mutant: the handler loads the document again after its uploads.
PostBreakingNewsFinishReloads(st, disk, t) ==
  PostBreakingNewsSave(st, readData(disk), t)

\* POST /api/breaking-news after its uploads: it saves the document it loaded
\* before them.
PostBreakingNewsFinish(st, disk, t) ==
  PostBreakingNewsSave(st, st.data, t)

\* POST /api/breaking-news up to its first await: the document is loaded here.
PostBreakingNewsBegin(in, disk, t) ==
  LET st == Locals("postBreakingNews", in, readData(disk), BnUploads(in.files))
  IN IF st.todo = <<>> THEN PostBreakingNewsFinish(st, disk, t) ELSE Await(st)

\* PUT /api/breaking-news/:id after its uploads.
PutBreakingNewsFinish(st, disk, t) ==
  LET body == st.in.body
      data == st.data
      idx == FindIndex(data.breakingNews, st.in.id)
      existing == data.breakingNews[idx]
      videoUrl == IF "video" \in DOMAIN st.urls THEN st.urls["video"]
                  ELSE Or(Get(existing, "videoUrl"), "")
      thumbnailUrl == IF "thumbnail" \in DOMAIN st.urls THEN st.urls["thumbnail"]
                      ELSE Or(Get(existing, "thumbnail"), "")
      Field(k) == IF Get(body, k) # undefined THEN Get(body, k) ELSE Get(existing, k)
      updated == Spread(existing,
                   [headline |-> Field("headline"),
                    shortDescription |-> Field("shortDescription"),
                    fullDescription |-> Field("fullDescription"),
                    category |-> Field("category"),
                    state |-> Field("state"),
                    youtubeUrl |-> Field("youtubeUrl"),
                    videoUrl |-> videoUrl,
                    thumbnail |-> thumbnailUrl,
                    timestamp |-> t])
      data2 == [data EXCEPT !.breakingNews = ReplaceAt(@, idx, updated)]
  IN Done(writeData(data2), 200, JsonRecord(updated), 1, <<>>)

PutBreakingNewsBegin(in, disk, t) ==
  LET data == readData(disk)
      st == Locals("putBreakingNews", in, data, BnUploads(in.files))
  IN IF FindIndex(data.breakingNews, in.id) = 0
       THEN Done(disk, 404, [error |-> "Breaking news not found"], 0, <<>>)
       ELSE IF st.todo = <<>> THEN PutBreakingNewsFinish(st, disk, t) ELSE Await(st)

\* DELETE /api/breaking-news/:id
DeleteBreakingNewsRun(in, disk, t) ==
  LET data == readData(disk)
      idx == FindIndex(data.breakingNews, in.id)
  IN IF idx = 0
       THEN Done(disk, 404, [error |-> "Breaking news not found"], 0, <<>>)
       ELSE Done(writeData([data EXCEPT !.breakingNews = Splice(@, idx)]),
                 200, [success |-> TRUE], 1, <<>>)

\* GET /api/breaking-news
GetBreakingNews(disk) == [status |-> 200, body |-> readData(disk).breakingNews]

\* --------------------------------------------------------- featured stories
\* Number(priority) of the decimal numerals the workloads send.
NumberOf(numeral) ==
  CASE numeral = "1" -> 1
    [] numeral = "2" -> 2
    [] numeral = "3" -> 3

TypeErrorMessage == "Cannot read properties of undefined (reading 'substring')"

\* writeData(data), then logActivity(type, `<what>: "<title...>"`, 'Admin User',
\* status), then the answer.  Evaluating title.substring throws a TypeError when
\* title is undefined: the handler's catch then answers `caught` after the write.
WriteLogAnswer(data, type, what, title, status, t, okStatus, okBody, caught) ==
  LET written == writeData(data)
      log == logActivity(written, type, what, title, status, t)
  IN IF title = undefined
       THEN Done(written, 500, caught, 1, <<>>)
       ELSE Done(log.disk, okStatus, okBody, 2, <<log.activity>>)

ImageUploads(files) == IF "image" \in files THEN <<"image">> ELSE <<>>

\* POST /api/featured-stories after its upload: the document is loaded here.
PostFeaturedStoriesFinish(st, disk, t) ==
  LET body == st.in.body
      imageUrl == IF "image" \in DOMAIN st.urls THEN st.urls["image"] ELSE ""
      data == readData(disk)
      newStory == [id |-> t,
                   title |-> Get(body, "title"),
                   description |-> Get(body, "description"),
                   content |-> Or(Get(body, "content"), Get(body, "description")),
                   category |-> Get(body, "category"),
                   state |-> Get(body, "state"),
                   excerpt |-> Or(Get(body, "excerpt"), Get(body, "description")),
                   imageUrl |-> imageUrl,
                   priority |-> IF Truthy(Get(body, "priority"))
                                  THEN NumberOf(body.priority) ELSE 1,
                   views |-> "0",
                   timestamp |-> t]
      data2 == ("featuredStories" :> Append(Coll(data, "featuredStories"), newStory)) @@ data
  IN WriteLogAnswer(data2, "featured-story", "New featured story published",
                    newStory.title, "published", t, 201, JsonRecord(newStory),
                    [error |-> "Failed to create featured story",
                     details |-> TypeErrorMessage])

PostFeaturedStoriesBegin(in, disk, t) ==
  LET st == Locals("postFeaturedStories", in, <<>>, ImageUploads(in.files))
  IN IF st.todo = <<>> THEN PostFeaturedStoriesFinish(st, disk, t) ELSE Await(st)

FeaturedUploadFailed(st, field, message, disk) ==
  Done(disk, 500, [error |-> "Failed to upload image", details |-> message], 0, <<>>)

\* PUT /api/featured-stories/:id after its upload.
PutFeaturedStoriesFinish(st, disk, t) ==
  LET body == st.in.body
      data == st.data
      storyIdx == FindIndex(data.featuredStories, st.in.id)
      existing == data.featuredStories[storyIdx]
      imageUrl == IF "image" \in DOMAIN st.urls THEN st.urls["image"]
                  ELSE Get(existing, "imageUrl")
      updated == Spread(existing,
                   [title |-> Get(body, "title"),
                    description |-> Get(body, "description"),
                    content |-> Or(Get(body, "content"), Get(body, "description")),
                    category |-> Get(body, "category"),
                    state |-> Get(body, "state"),
                    excerpt |-> Or(Get(body, "excerpt"), Get(body, "description")),
                    imageUrl |-> imageUrl,
                    priority |-> IF Truthy(Get(body, "priority"))
                                   THEN NumberOf(body.priority) ELSE existing.priority,
                    timestamp |-> t])
      data2 == [data EXCEPT !.featuredStories = ReplaceAt(@, storyIdx, updated)]
  IN WriteLogAnswer(data2, "featured-story", "Featured story updated",
                    updated.title, "updated", t, 200, JsonRecord(updated),
                    [error |-> "Failed to update featured story",
                     details |-> TypeErrorMessage])

PutFeaturedStoriesBegin(in, disk, t) ==
  LET data == readData(disk)
      st == Locals("putFeaturedStories", in, data, ImageUploads(in.files))
  IN IF FindIndex(data.featuredStories, in.id) = 0
       THEN Done(disk, 404, [error |-> "Featured story not found"], 0, <<>>)
       ELSE IF st.todo = <<>> THEN PutFeaturedStoriesFinish(st, disk, t) ELSE Await(st)

\* DELETE /api/featured-stories/:id
DeleteFeaturedStoriesRun(in, disk, t) ==
  LET data == readData(disk)
      stories == Coll(data, "featuredStories")
      idx == FindIndex(stories, in.id)
      deletedStory == stories[idx]
      data2 == ("featuredStories" :> Splice(stories, idx)) @@ data
  IN IF idx = 0
       THEN Done(disk, 404, [error |-> "Featured story not found"], 0, <<>>)
       ELSE WriteLogAnswer(data2, "featured-story", "Featured story deleted",
                           Get(deletedStory, "title"), "deleted", t,
                           200, [success |-> TRUE],
                           [error |-> "Failed to delete featured story"])

\* GET /api/featured-stories
GetFeaturedStories(disk) ==
  [status |-> 200, body |-> Coll(readData(disk), "featuredStories")]

\* --------------------------------------------------------------------- news
\* POST /api/news uploads the file only when the body carries no imageUrl.
PostNewsUploads(in) ==
  IF Truthy(Get(in.body, "imageUrl")) THEN <<>> ELSE ImageUploads(in.files)

\* Mutant: the new article is answered but not pushed onto data.news.
PostNewsFinishNotPushed(st, disk, t) ==
  LET body == st.in.body
      imageUrl == IF Truthy(Get(body, "imageUrl")) THEN body.imageUrl
                  ELSE IF "image" \in DOMAIN st.urls THEN st.urls["image"]
                  ELSE ""
      data == readData(disk)
      newNews == [id |-> t,
                  title |-> Get(body, "title"),
                  content |-> Get(body, "content"),
                  category |-> Get(body, "category"),
                  imageUrl |-> imageUrl,
                  timestamp |-> t]
  IN WriteLogAnswer(data, "news", "New article published", newNews.title,
                    "published", t, 200, JsonRecord(newNews),
                    [error |-> "Failed to add news"])

\* POST /api/news after its upload: the document is loaded here.
PostNewsFinish(st, disk, t) ==
  LET body == st.in.body
      imageUrl == IF Truthy(Get(body, "imageUrl")) THEN body.imageUrl
                  ELSE IF "image" \in DOMAIN st.urls THEN st.urls["image"]
                  ELSE ""
      data == readData(disk)
      newNews == [id |-> t,
                  title |-> Get(body, "title"),
                  content |-> Get(body, "content"),
                  category |-> Get(body, "category"),
                  imageUrl |-> imageUrl,
                  timestamp |-> t]
      data2 == [data EXCEPT !.news = Append(@, newNews)]
  IN WriteLogAnswer(data2, "news", "New article published", newNews.title,
                    "published", t, 200, JsonRecord(newNews),
                    [error |-> "Failed to add news"])

PostNewsBegin(in, disk, t) ==
  LET st == Locals("postNews", in, <<>>, PostNewsUploads(in))
  IN IF st.todo = <<>> THEN PostNewsFinish(st, disk, t) ELSE Await(st)

PostNewsUploadFailed(st, field, message, disk) ==
  Done(disk, 500, [error |-> "Failed to add news"], 0, <<>>)

\* PUT /api/news/:id after its upload.
PutNewsFinish(st, disk, t) ==
  LET body == st.in.body
      data == st.data
      idx == FindIndex(data.news, st.in.id)
      existing == data.news[idx]
      finalImageUrl == IF "image" \in DOMAIN st.urls THEN st.urls["image"]
                       ELSE Or(Or(Get(body, "imageUrl"), Get(existing, "imageUrl")), "")
      updated == Spread(existing,
                   [title |-> Or(Get(body, "title"), Get(existing, "title")),
                    content |-> Or(Get(body, "content"), Get(existing, "content")),
                    category |-> Or(Get(body, "category"), Get(existing, "category")),
                    imageUrl |-> finalImageUrl,
                    timestamp |-> t])
      data2 == [data EXCEPT !.news = ReplaceAt(@, idx, updated)]
  IN WriteLogAnswer(data2, "news", "Article updated", updated.title,
                    "updated", t, 200, JsonRecord(updated),
                    [error |-> "Failed to update news"])

PutNewsBegin(in, disk, t) ==
  LET data == readData(disk)
      st == Locals("putNews", in, data, ImageUploads(in.files))
  IN IF FindIndex(data.news, in.id) = 0
       THEN Done(disk, 404, [error |-> "News not found"], 0, <<>>)
       ELSE IF st.todo = <<>> THEN PutNewsFinish(st, disk, t) ELSE Await(st)

PutNewsUploadFailed(st, field, message, disk) ==
  Done(disk, 500, [error |-> "Failed to update news"], 0, <<>>)

\* Mutant: the delete does not check that the id was found, so that
\* splice(-1, 1) removes the last article.
DeleteNewsRunUnchecked(in, disk, t) ==
  LET data == readData(disk)
      idx == FindIndex(data.news, in.id)
      at == IF idx = 0 THEN Len(data.news) ELSE idx
      data2 == [data EXCEPT !.news = Splice(@, at)]
  IN IF data.news = <<>>
       THEN Done(disk, 500, [error |-> "Failed to delete news"], 0, <<>>)
       ELSE WriteLogAnswer(data2, "news", "Article deleted",
                           Get(data.news[at], "title"), "deleted", t,
                           200, [success |-> TRUE],
                           [error |-> "Failed to delete news"])

\* DELETE /api/news/:id
DeleteNewsRun(in, disk, t) ==
  LET data == readData(disk)
      idx == FindIndex(data.news, in.id)
      deletedNews == data.news[idx]
      data2 == [data EXCEPT !.news = Splice(@, idx)]
  IN IF idx = 0
       THEN Done(disk, 404, [error |-> "News not found"], 0, <<>>)
       ELSE WriteLogAnswer(data2, "news", "Article deleted",
                           Get(deletedNews, "title"), "deleted", t,
                           200, [success |-> TRUE],
                           [error |-> "Failed to delete news"])

\* GET /api/news
GetNews(disk) == [status |-> 200, body |-> readData(disk).news]

\* GET /api/activities
GetActivities(disk) == [status |-> 200, body |-> Coll(readData(disk), "activities")]

\* ------------------------------------------------------------------ posters
PosterFile(i) ==
  CASE i = 1 -> "posterImage1" [] i = 2 -> "posterImage2" [] i = 3 -> "posterImage3"

PosterTitleKey(i) ==
  CASE i = 1 -> "poster1Title" [] i = 2 -> "poster2Title" [] i = 3 -> "poster3Title"

PosterLinkKey(i) ==
  CASE i = 1 -> "poster1Link" [] i = 2 -> "poster2Link" [] i = 3 -> "poster3Link"

PosterImageUrlKey(i) ==
  CASE i = 1 -> "poster1ImageUrl" [] i = 2 -> "poster2ImageUrl" [] i = 3 -> "poster3ImageUrl"

\* The loop of POST /api/posters awaits the upload of posterImage<i> for i = 1..3
\* in turn, where a file is attached.
RECURSIVE PosterUploadsFrom(_, _)
PosterUploadsFrom(i, files) ==
  IF i > PosterSlots THEN <<>>
  ELSE (IF PosterFile(i) \in files THEN <<PosterFile(i)>> ELSE <<>>)
         \o PosterUploadsFrom(i + 1, files)

\* POST /api/posters after its uploads.
PostPostersFinish(st, disk, t) ==
  LET body == st.in.body
      data == st.data
      posters == [i \in 1..PosterSlots |->
                    LET imageUrl == IF PosterFile(i) \in DOMAIN st.urls
                                      THEN st.urls[PosterFile(i)]
                                      ELSE Get(body, PosterImageUrlKey(i))
                    IN [id |-> i,
                        title |-> Or(Get(body, PosterTitleKey(i)), ""),
                        image |-> Or(imageUrl, ""),
                        link |-> Or(Get(body, PosterLinkKey(i)), "")]]
      data2 == ("posters" :> posters) @@ data
  IN Done(writeData(data2), 200, JsonArray(posters), 1, <<>>)

PostPostersBegin(in, disk, t) ==
  LET st == Locals("postPosters", in, readData(disk), PosterUploadsFrom(1, in.files))
  IN IF st.todo = <<>> THEN PostPostersFinish(st, disk, t) ELSE Await(st)

PostPostersUploadFailed(st, field, message, disk) ==
  Done(disk, 500, [error |-> "Failed to update posters: " \o message], 0, <<>>)

\* Mutant: a placeholder takes posters.length as its id.
RECURSIVE PadPostersFromZero(_)
PadPostersFromZero(posters) ==
  IF Len(posters) < PosterSlots
    THEN PadPostersFromZero(Append(posters,
           [id |-> Len(posters), title |-> "", image |-> "", link |-> ""]))
    ELSE posters

\* while (posters.length < 3) posters.push({ id: posters.length + 1, ... })
RECURSIVE PadPosters(_)
PadPosters(posters) ==
  IF Len(posters) < PosterSlots
    THEN PadPosters(Append(posters,
           [id |-> Len(posters) + 1, title |-> "", image |-> "", link |-> ""]))
    ELSE posters

\* GET /api/posters
GetPosters(disk) ==
  [status |-> 200, body |-> JsonArray(PadPosters(Coll(readData(disk), "posters")))]

\* ---------------------------------- categories, static pages, tickers, users
\* POST /api/categories
PostCategoriesRun(in, disk, t) ==
  LET data == readData(disk)
      newCategory == [id |-> t, name |-> Get(in.body, "name"),
                      description |-> Get(in.body, "description"), timestamp |-> t]
  IN Done(writeData([data EXCEPT !.categories = Append(@, newCategory)]),
          200, JsonRecord(newCategory), 1, <<>>)

GetCategories(disk) == [status |-> 200, body |-> readData(disk).categories]

\* POST /api/static-pages
PostStaticPagesRun(in, disk, t) ==
  LET data == readData(disk)
      newPage == [id |-> t, title |-> Get(in.body, "title"),
                  content |-> Get(in.body, "content"),
                  slug |-> Get(in.body, "slug"), timestamp |-> t]
  IN Done(writeData([data EXCEPT !.staticPages = Append(@, newPage)]),
          200, JsonRecord(newPage), 1, <<>>)

GetStaticPages(disk) == [status |-> 200, body |-> readData(disk).staticPages]

\* Mutant: the new ticker is logged as an activity.
PostTickersRunLogged(in, disk, t) ==
  LET data == readData(disk)
      newTicker == [id |-> t, text |-> Get(in.body, "text"),
                    type |-> Get(in.body, "type"), active |-> TRUE, timestamp |-> t]
      saved == writeData([data EXCEPT !.tickers = Append(@, newTicker)])
      log == logActivity(saved, "ticker", "New ticker: ", "tick", "published", t)
  IN Done(log.disk, 200, JsonRecord(newTicker), 2, <<log.activity>>)

\* POST /api/tickers
PostTickersRun(in, disk, t) ==
  LET data == readData(disk)
      newTicker == [id |-> t, text |-> Get(in.body, "text"),
                    type |-> Get(in.body, "type"), active |-> TRUE, timestamp |-> t]
  IN Done(writeData([data EXCEPT !.tickers = Append(@, newTicker)]),
          200, JsonRecord(newTicker), 1, <<>>)

GetTickers(disk) == [status |-> 200, body |-> readData(disk).tickers]

\* Mutant: the user is sent as stored.
KeepPassword(user) == user

\* { ...user, password: undefined }
StripPassword(user) == Spread(user, [password |-> undefined])

\* GET /api/users
GetUsers(disk) ==
  LET users == readData(disk).users
  IN [status |-> 200,
      body |-> JsonArray([i \in 1..Len(users) |-> StripPassword(users[i])])]

\* Mutant: the user is stored without a look at the stored usernames.
PostUsersRunUnchecked(in, disk, t) ==
  LET data == readData(disk)
      newUser == [id |-> t, username |-> Get(in.body, "username"),
                  password |-> Get(in.body, "password"),
                  role |-> Get(in.body, "role"),
                  email |-> Get(in.body, "email"), timestamp |-> t]
  IN Done(writeData([data EXCEPT !.users = Append(@, newUser)]),
          200, JsonRecord(StripPassword(newUser)), 1, <<>>)

\* POST /api/users
PostUsersRun(in, disk, t) ==
  LET data == readData(disk)
      username == Get(in.body, "username")
      newUser == [id |-> t, username |-> username,
                  password |-> Get(in.body, "password"),
                  role |-> Get(in.body, "role"),
                  email |-> Get(in.body, "email"), timestamp |-> t]
  IN IF \E i \in 1..Len(data.users) : Get(data.users[i], "username") = username
       THEN Done(disk, 400, [error |-> "Username already exists"], 0, <<>>)
       ELSE Done(writeData([data EXCEPT !.users = Append(@, newUser)]),
                 200, JsonRecord(StripPassword(newUser)), 1, <<>>)

\* Mutant: the login looks the user up by username alone.
LoginByUsername(disk, username, password) ==
  LET users == readData(disk).users
      Match(u) == Get(u, "username") = username
  IN IF \E i \in 1..Len(users) : Match(users[i])
       THEN LET i == CHOOSE i \in 1..Len(users) :
                       Match(users[i]) /\ \A j \in 1..(i - 1) : ~Match(users[j])
            IN [status |-> 200,
                body |-> [success |-> TRUE,
                          user |-> JsonRecord(Spread(users[i], [password |-> undefined]))]]
       ELSE [status |-> 401,
             body |-> [success |-> FALSE, message |-> "Invalid credentials"]]

\* POST /api/auth/login
Login(disk, username, password) ==
  LET users == readData(disk).users
      Match(u) == Get(u, "username") = username /\ Get(u, "password") = password
  IN IF \E i \in 1..Len(users) : Match(users[i])
       THEN LET i == CHOOSE i \in 1..Len(users) :
                       Match(users[i]) /\ \A j \in 1..(i - 1) : ~Match(users[j])
            IN [status |-> 200,
                body |-> [success |-> TRUE, user |-> JsonRecord(StripPassword(users[i]))]]
       ELSE [status |-> 401,
             body |-> [success |-> FALSE, message |-> "Invalid credentials"]]

\* ------------------------------------------------------------- media and ads
FileUploads(files) == IF "file" \in files THEN <<"file">> ELSE <<>>

\* POST /api/media after its upload: the document is loaded here.
PostMediaFinish(st, disk, t) ==
  LET data == readData(disk)
      newMedia == [id |-> t, title |-> Get(st.in.body, "title"),
                   description |-> Get(st.in.body, "description"),
                   url |-> st.urls["file"], type |-> st.in.mimetype, timestamp |-> t]
  IN Done(writeData([data EXCEPT !.media = Append(@, newMedia)]),
          200, JsonRecord(newMedia), 1, <<>>)

PostMediaBegin(in, disk, t) ==
  IF "file" \notin in.files
    THEN Done(disk, 400, [error |-> "No file uploaded"], 0, <<>>)
    ELSE Await(Locals("postMedia", in, <<>>, FileUploads(in.files)))

\* Mutant: the catch of the failed upload sends no response.
PostMediaUploadFailedSilent(st, field, message, disk) ==
  Await([st EXCEPT !.todo = <<>>])

PostMediaUploadFailed(st, field, message, disk) ==
  Done(disk, 500, [error |-> "Failed to upload media"], 0, <<>>)

\* POST /api/ads after its upload: the document is loaded here.
PostAdsFinish(st, disk, t) ==
  LET body == st.in.body
      data == readData(disk)
      newAd == [id |-> t, title |-> Get(body, "title"),
                placement |-> Get(body, "placement"),
                imageUrl |-> IF "image" \in DOMAIN st.urls THEN st.urls["image"] ELSE "",
                url |-> Get(body, "url"),
                startDate |-> Get(body, "startDate"),
                endDate |-> Get(body, "endDate"),
                active |-> TRUE, timestamp |-> t]
  IN Done(writeData([data EXCEPT !.ads = Append(@, newAd)]),
          200, JsonRecord(newAd), 1, <<>>)

PostAdsBegin(in, disk, t) ==
  LET st == Locals("postAds", in, <<>>, ImageUploads(in.files))
  IN IF st.todo = <<>> THEN PostAdsFinish(st, disk, t) ELSE Await(st)

PostAdsUploadFailed(st, field, message, disk) ==
  Done(disk, 500, [error |-> "Failed to add advertisement"], 0, <<>>)

GetAds(disk) == [status |-> 200, body |-> readData(disk).ads]

\* ------------------------------------------------------ handlers, by name
\* The handler's step after the last of its uploads has succeeded.
Finish(st, disk, t) ==
  CASE st.h = "postBreakingNews" -> PostBreakingNewsFinish(st, disk, t)
    [] st.h = "putBreakingNews" -> PutBreakingNewsFinish(st, disk, t)
    [] st.h = "postFeaturedStories" -> PostFeaturedStoriesFinish(st, disk, t)
    [] st.h = "putFeaturedStories" -> PutFeaturedStoriesFinish(st, disk, t)
    [] st.h = "postNews" -> PostNewsFinish(st, disk, t)
    [] st.h = "putNews" -> PutNewsFinish(st, disk, t)
    [] st.h = "postPosters" -> PostPostersFinish(st, disk, t)
    [] st.h = "postMedia" -> PostMediaFinish(st, disk, t)
    [] st.h = "postAds" -> PostAdsFinish(st, disk, t)

\* The handler's catch of the Error an upload threw.
UploadFailed(st, field, message, disk) ==
  CASE st.h \in {"postBreakingNews", "putBreakingNews"} ->
         BnUploadFailed(st, field, message, disk)
    [] st.h \in {"postFeaturedStories", "putFeaturedStories"} ->
         FeaturedUploadFailed(st, field, message, disk)
    [] st.h = "postNews" -> PostNewsUploadFailed(st, field, message, disk)
    [] st.h = "putNews" -> PutNewsUploadFailed(st, field, message, disk)
    [] st.h = "postPosters" -> PostPostersUploadFailed(st, field, message, disk)
    [] st.h = "postMedia" -> PostMediaUploadFailed(st, field, message, disk)
    [] st.h = "postAds" -> PostAdsUploadFailed(st, field, message, disk)

Folder(h, field) ==
  CASE h \in {"postBreakingNews", "putBreakingNews"} -> BnFolder(field)
    [] h \in {"postFeaturedStories", "putFeaturedStories"} -> "featured-stories"
    [] h \in {"postNews", "putNews"} -> "news"
    [] h = "postPosters" -> "posters"
    [] h = "postMedia" -> "media"
    [] h = "postAds" -> "ads"

\* Mutant: the staging file stays where it is.
UnlinkNothing(staged, field, unlinkOk) == staged

\* try { fs.unlinkSync(file.path) } catch (unlinkError) { console.error(...) }
Unlink(staged, field, unlinkOk) == IF unlinkOk THEN staged \ {field} ELSE staged

\* The staging directory after uploadToCloudinary: the file is unlinked only
\* after cloudinary.uploader.upload has resolved.
StagedAfter(staged, field, ok, unlinkOk) ==
  IF ok THEN Unlink(staged, field, unlinkOk) ELSE staged

\* The step of request st that follows the settling of its pending upload;
\* unlinkOk tells whether the staging file can be removed.
ResumeUnlinking(st, ok, unlinkOk, disk, t) ==
  LET field == Head(st.todo)
      up == uploadToCloudinary(Folder(st.h, field), ok)
      after == StagedAfter(st.staged, field, ok, unlinkOk)
      call == [field |-> field, folder |-> Folder(st.h, field),
               ok |-> ok, unlinked |-> unlinkOk,
               before |-> st.staged, after |-> after, result |-> up]
      st2 == [st EXCEPT !.urls = (field :> up.url) @@ @, !.todo = Tail(@),
                        !.staged = after, !.gateway = call]
  IN IF ~up.ok
       THEN [UploadFailed(st, field, up.message, disk)
               EXCEPT !.uploadFailed = TRUE, !.gateway = call]
     ELSE IF st2.todo = <<>> THEN [Finish(st2, disk, t) EXCEPT !.gateway = call]
     ELSE Await(st2)

Resume(st, ok, disk, t) == ResumeUnlinking(st, ok, TRUE, disk, t)

\* ------------------------------------------------------------------ actions
\* The server starts without data.json; `requests` requests will arrive.
InitWith(requests, oneAtATime) ==
  /\ dataFile = <<>>
  /\ now = 1
  /\ req = [p \in Procs |-> Idle]
  /\ last = [h |-> "none"]
  /\ hist = <<>>
  /\ overlap = FALSE
  /\ left = requests
  /\ serial = oneAtATime

\* Slot p takes the result r of a step of handler h on the request `in`.
\* An answer is recorded in `last` with the file as it was before the step,
\* the document the handler had loaded, the number of upload calls the request
\* has made, and the answer given before this one.
Settle(p, h, in, r) ==
  IF r.k = "done"
    THEN /\ dataFile' = r.disk
         /\ hist' = r.logged \o hist
         /\ last' = [h |-> h, in |-> in, status |-> r.status, body |-> r.body,
                     writes |-> r.writes, logged |-> r.logged, before |-> dataFile,
                     loaded |-> IF req[p] # Idle /\ req[p].data # <<>>
                                  THEN req[p].data ELSE readData(dataFile),
                     uploadFailed |-> r.uploadFailed,
                     gateway |-> r.gateway,
                     sent |-> r.sent,
                     uploads |-> IF req[p] = Idle
                                   THEN 0 ELSE Cardinality(DOMAIN req[p].urls) + 1,
                     prev |-> IF last.h = "none"
                                THEN [h |-> "none", status |-> 0, body |-> <<>>]
                                ELSE [h |-> last.h, status |-> last.status,
                                      body |-> last.body]]
         /\ req' = [req EXCEPT ![p] = Idle]
    ELSE /\ req' = [req EXCEPT ![p] = r.st]
         /\ UNCHANGED <<dataFile, hist, last>>

Quiet == \A q \in Procs : req[q] = Idle

\* A request arrives and takes the first idle slot.
Arrive(p) ==
  /\ left > 0
  /\ serial => Quiet
  /\ req[p] = Idle
  /\ \A q \in 1..(p - 1) : req[q] # Idle
  /\ left' = left - 1
  /\ overlap' = (overlap \/ ~Quiet)
  /\ UNCHANGED <<now, serial>>

Tick ==
  /\ now < MaxClock
  /\ now' = now + 1
  /\ UNCHANGED <<dataFile, req, last, hist, overlap, left, serial>>

\* Mutant: the handler goes on with the file as it was when the server
\* started, not as it is when its upload settles.
UploadSettledOnStartFile(p, ok) ==
  /\ req[p] # Idle
  /\ req[p].todo # <<>>
  /\ Settle(p, req[p].h, req[p].in, Resume(req[p], ok, <<>>, now))
  /\ UNCHANGED <<now, overlap, left, serial>>

\* The media host settles the upload slot p awaits.
UploadSettled(p, ok) ==
  /\ req[p] # Idle
  /\ req[p].todo # <<>>
  /\ Settle(p, req[p].h, req[p].in, Resume(req[p], ok, dataFile, now))
  /\ UNCHANGED <<now, overlap, left, serial>>

\* The media host accepts the upload slot p awaits, and the staging file
\* cannot be removed.
UploadSettledUnlinkFails(p) ==
  /\ req[p] # Idle
  /\ req[p].todo # <<>>
  /\ Settle(p, req[p].h, req[p].in, ResumeUnlinking(req[p], TRUE, FALSE, dataFile, now))
  /\ UNCHANGED <<now, overlap, left, serial>>

PostBreakingNews(p, body, files) ==
  LET in == [body |-> body, files |-> files]
  IN Arrive(p) /\ Settle(p, "postBreakingNews", in, PostBreakingNewsBegin(in, dataFile, now))

PutBreakingNews(p, id, body, files) ==
  LET in == [id |-> id, body |-> body, files |-> files]
  IN Arrive(p) /\ Settle(p, "putBreakingNews", in, PutBreakingNewsBegin(in, dataFile, now))

DeleteBreakingNews(p, id) ==
  LET in == [id |-> id]
  IN Arrive(p) /\ Settle(p, "deleteBreakingNews", in, DeleteBreakingNewsRun(in, dataFile, now))

PostFeaturedStories(p, body, files) ==
  LET in == [body |-> body, files |-> files]
  IN Arrive(p) /\ Settle(p, "postFeaturedStories", in, PostFeaturedStoriesBegin(in, dataFile, now))

PutFeaturedStories(p, id, body, files) ==
  LET in == [id |-> id, body |-> body, files |-> files]
  IN Arrive(p) /\ Settle(p, "putFeaturedStories", in, PutFeaturedStoriesBegin(in, dataFile, now))

DeleteFeaturedStories(p, id) ==
  LET in == [id |-> id]
  IN Arrive(p) /\ Settle(p, "deleteFeaturedStories", in, DeleteFeaturedStoriesRun(in, dataFile, now))

PostNews(p, body, files) ==
  LET in == [body |-> body, files |-> files]
  IN Arrive(p) /\ Settle(p, "postNews", in, PostNewsBegin(in, dataFile, now))

PutNews(p, id, body, files) ==
  LET in == [id |-> id, body |-> body, files |-> files]
  IN Arrive(p) /\ Settle(p, "putNews", in, PutNewsBegin(in, dataFile, now))

DeleteNews(p, id) ==
  LET in == [id |-> id]
  IN Arrive(p) /\ Settle(p, "deleteNews", in, DeleteNewsRun(in, dataFile, now))

PostPosters(p, body, files) ==
  LET in == [body |-> body, files |-> files]
  IN Arrive(p) /\ Settle(p, "postPosters", in, PostPostersBegin(in, dataFile, now))

PostCategories(p, body) ==
  LET in == [body |-> body]
  IN Arrive(p) /\ Settle(p, "postCategories", in, PostCategoriesRun(in, dataFile, now))

PostStaticPages(p, body) ==
  LET in == [body |-> body]
  IN Arrive(p) /\ Settle(p, "postStaticPages", in, PostStaticPagesRun(in, dataFile, now))

PostTickers(p, body) ==
  LET in == [body |-> body]
  IN Arrive(p) /\ Settle(p, "postTickers", in, PostTickersRun(in, dataFile, now))

PostUsers(p, body) ==
  LET in == [body |-> body]
  IN Arrive(p) /\ Settle(p, "postUsers", in, PostUsersRun(in, dataFile, now))

PostMedia(p, body, files) ==
  LET in == [body |-> body, files |-> files, mimetype |-> "image/png"]
  IN Arrive(p) /\ Settle(p, "postMedia", in, PostMediaBegin(in, dataFile, now))

PostAds(p, body, files) ==
  LET in == [body |-> body, files |-> files]
  IN Arrive(p) /\ Settle(p, "postAds", in, PostAdsBegin(in, dataFile, now))

\* ---------------------------------------------------------------- workloads
Ids == 1..MaxClock

BnFull ==
  [headline |-> "h1", shortDescription |-> "s1", fullDescription |-> "f1",
   category |-> "World", state |-> "st1", youtubeUrl |-> "y1"]

BnHeadlineOnly == [headline |-> "h2"]

BnBodies == {BnFull, BnHeadlineOnly}

BnFiles == SUBSET {"video", "thumbnail"}

FsFull ==
  [title |-> "T1", description |-> "d1", content |-> "c1", category |-> "World",
   state |-> "st1", excerpt |-> "e1", priority |-> "2"]

FsTitleOnly == [title |-> "T2"]

FsNoTitle == [description |-> "d2"]

FsBodies == {FsFull, FsTitleOnly, FsNoTitle}

NewsFull == [title |-> "A", content |-> "B", category |-> "world"]

NewsEmptyTitle == [title |-> "", content |-> "C"]

NewsNoTitle == [content |-> "D", imageUrl |-> "https://img/d"]

NewsBodies == {NewsFull, NewsEmptyTitle, NewsNoTitle}

ImageFiles == SUBSET {"image"}

PosterBodies ==
  { [poster1Title |-> "P1", poster1Link |-> "l1", poster2ImageUrl |-> "https://img/p2"],
    [poster3Title |-> "P3"] }

PosterFileSets == { {}, {"posterImage1"}, {"posterImage2", "posterImage3"} }

CategoryBodies == { [name |-> "World", description |-> "d"], [name |-> "sports"] }

StaticPageBodies == { [title |-> "About", content |-> "c", slug |-> "about"] }

TickerBodies == { [text |-> "tick", type |-> "breaking"] }

UserBodies ==
  { [username |-> "admin", password |-> "pw1", role |-> "admin", email |-> "a@x"],
    [username |-> "admin", password |-> "pw2"],
    [username |-> "bob"] }

MediaBodies == { [title |-> "m", description |-> "d"] }

MediaFiles == SUBSET {"file"}

AdBodies ==
  { [title |-> "ad", placement |-> "top", url |-> "https://ad", startDate |-> "s",
     endDate |-> "e"] }

BreakingNewsRequest(p) ==
  \/ \E body \in BnBodies, files \in BnFiles : PostBreakingNews(p, body, files)
  \/ \E id \in Ids, body \in BnBodies, files \in BnFiles : PutBreakingNews(p, id, body, files)
  \/ \E id \in Ids : DeleteBreakingNews(p, id)

FeaturedStoriesRequest(p) ==
  \/ \E body \in FsBodies, files \in ImageFiles : PostFeaturedStories(p, body, files)
  \/ \E id \in Ids, body \in FsBodies, files \in ImageFiles : PutFeaturedStories(p, id, body, files)
  \/ \E id \in Ids : DeleteFeaturedStories(p, id)

NewsRequest(p) ==
  \/ \E body \in NewsBodies, files \in ImageFiles : PostNews(p, body, files)
  \/ \E id \in Ids, body \in NewsBodies, files \in ImageFiles : PutNews(p, id, body, files)
  \/ \E id \in Ids : DeleteNews(p, id)

OtherRequest(p) ==
  \/ \E body \in PosterBodies, files \in PosterFileSets : PostPosters(p, body, files)
  \/ \E body \in CategoryBodies : PostCategories(p, body)
  \/ \E body \in StaticPageBodies : PostStaticPages(p, body)
  \/ \E body \in TickerBodies : PostTickers(p, body)
  \/ \E body \in UserBodies : PostUsers(p, body)
  \/ \E body \in MediaBodies, files \in MediaFiles : PostMedia(p, body, files)
  \/ \E body \in AdBodies, files \in ImageFiles : PostAds(p, body, files)

\* Every handler that uploads, under concurrent requests, with or without files.
UploadingRequest(p) ==
  \/ \E files \in BnFiles : PostBreakingNews(p, BnFull, files)
  \/ \E id \in Ids, files \in BnFiles : PutBreakingNews(p, id, BnHeadlineOnly, files)
  \/ \E files \in ImageFiles : PostFeaturedStories(p, FsFull, files)
  \/ \E id \in Ids, files \in ImageFiles : PutFeaturedStories(p, id, FsTitleOnly, files)
  \/ \E body \in {NewsFull, NewsNoTitle}, files \in ImageFiles : PostNews(p, body, files)
  \/ \E id \in Ids, files \in ImageFiles : PutNews(p, id, NewsEmptyTitle, files)
  \/ \E body \in PosterBodies, files \in PosterFileSets : PostPosters(p, body, files)
  \/ \E body \in MediaBodies, files \in MediaFiles : PostMedia(p, body, files)
  \/ \E body \in AdBodies, files \in ImageFiles : PostAds(p, body, files)

NextConc ==
  \/ Tick
  \/ \E p \in Procs, ok \in BOOLEAN : UploadSettled(p, ok)
  \/ \E p \in Procs : UploadingRequest(p)

SpecConc == InitWith(MaxReqs, FALSE) /\ [][NextConc]_vars

\* Breaking news under concurrent requests.
NextRace ==
  \/ Tick
  \/ \E p \in Procs, ok \in BOOLEAN : UploadSettled(p, ok)
  \/ \E p \in Procs : BreakingNewsRequest(p)

SpecRace == InitWith(MaxReqs, FALSE) /\ [][NextRace]_vars

\* Breaking news, featured stories and articles: create, update and delete,
\* one request at a time.
NextSeq ==
  \/ Tick
  \/ \E p \in Procs, ok \in BOOLEAN : UploadSettled(p, ok)
  \/ \E p \in Procs : BreakingNewsRequest(p)
  \/ \E p \in Procs : FeaturedStoriesRequest(p)
  \/ \E p \in Procs : NewsRequest(p)

SpecSeq == InitWith(MaxReqs, TRUE) /\ [][NextSeq]_vars

\* Posters, categories, pages, tickers, users, media and advertisements, one
\* request at a time.
NextAdmin ==
  \/ Tick
  \/ \E p \in Procs, ok \in BOOLEAN : UploadSettled(p, ok)
  \/ \E p \in Procs : OtherRequest(p)

SpecAdmin == InitWith(MaxReqs, TRUE) /\ [][NextAdmin]_vars

\* The create handler of every collection, one request at a time.
CreateRequest(p) ==
  \/ \E files \in BnFiles : PostBreakingNews(p, BnFull, files)
  \/ \E body \in {FsFull, FsNoTitle}, files \in ImageFiles : PostFeaturedStories(p, body, files)
  \/ \E body \in {NewsFull, NewsNoTitle}, files \in ImageFiles : PostNews(p, body, files)

NextCreate ==
  \/ Tick
  \/ \E p \in Procs, ok \in BOOLEAN : UploadSettled(p, ok)
  \/ \E p \in Procs : CreateRequest(p)
  \/ \E p \in Procs : OtherRequest(p)

SpecCreate == InitWith(MaxReqs, TRUE) /\ [][NextCreate]_vars

\* News articles, one request at a time, over longer runs.
NextNews ==
  \/ Tick
  \/ \E p \in Procs, ok \in BOOLEAN : UploadSettled(p, ok)
  \/ \E p \in Procs : NewsRequest(p)

SpecNews == InitWith(CrudReqs, TRUE) /\ [][NextNews]_vars

\* The activity log up to its cap and beyond.  The log is first filled to one
\* entry below the cap by a create and then updates of the article, one request
\* at a time within one millisecond; from there on any news requests arrive,
\* concurrently, while the clock runs.
Filled == Len(hist) >= ActivityCap - 1

FillLog(p) ==
  /\ ~Filled
  /\ Quiet
  /\ LET news == readData(dataFile).news
     IN \/ news = <<>> /\ PostNews(p, NewsFull, {})
        \/ news # <<>> /\ PutNews(p, news[1].id, NewsFull, {})

NextLog ==
  \/ (hist = <<>> \/ Filled) /\ Tick
  \/ \E p \in Procs, ok \in BOOLEAN : UploadSettled(p, ok)
  \/ \E p \in Procs : FillLog(p)
  \/ \E p \in Procs : Filled /\ NewsRequest(p)

SpecLog == InitWith(MaxLogged, FALSE) /\ [][NextLog]_vars

\* ------------------------------------------------------------------ claims
BreakingNews == readData(dataFile).breakingNews
FeaturedStories == Coll(readData(dataFile), "featuredStories")
News == readData(dataFile).news
Activities == Coll(readData(dataFile), "activities")

Contains(seq, x) == \E i \in 1..Len(seq) : seq[i] = x

\* C1: every breaking-news save rewrites the whole document from the snapshot
\* its request loaded before its uploads: after a successful create, update or
\* delete the file holds that snapshot with the request's own change applied,
\* and nothing that was written to the file since the snapshot was loaded.
C1_SaveRewritesSnapshot ==
  (last.h \in {"postBreakingNews", "putBreakingNews", "deleteBreakingNews"}
     /\ last.status = 200)
  => LET snap == last.loaded.breakingNews
         idx == FindIndex(snap, last.in.id)
     IN /\ \A c \in DOMAIN readData(dataFile) \ {"breakingNews"} :
             readData(dataFile)[c] = last.loaded[c]
        /\ last.h = "postBreakingNews" =>
             BreakingNews = <<last.body>> \o snap
        /\ last.h = "putBreakingNews" =>
             BreakingNews = ReplaceAt(snap, idx, last.body)
        /\ last.h = "deleteBreakingNews" =>
             BreakingNews = Splice(snap, idx)

\* C1 (witness): two creates were both answered with success, the record the
\* first persisted was in the file when the second saved, and it is gone.
C1_LostUpdate ==
  /\ last.h = "postBreakingNews" /\ last.status = 200
  /\ last.prev.h = "postBreakingNews" /\ last.prev.status = 200
  /\ Contains(readData(last.before).breakingNews, last.prev.body)
  /\ ~Contains(BreakingNews, last.prev.body)
  /\ Contains(BreakingNews, last.body)

\* C2: the persisted Activity collection never holds more than 50 records, and
\* while no two requests have overlapped it is the 50 most recent of all the
\* activities recorded so far (all of them when fewer), newest first.
C2_ActivityLogBounded ==
  /\ Len(Activities) <= 50
  /\ ~overlap => Activities = Take(hist, 50)

\* C2 (witness): 51 activities were recorded one request at a time, and the
\* oldest, the publication of the article, has been dropped.
C2_LogOverflowed ==
  /\ ~overlap
  /\ Len(hist) = 51
  /\ Len(Activities) = 50
  /\ hist[51].status = "published"
  /\ \A i \in 1..50 : Activities[i].status # "published"

\* The collection a handler works on, and what the update handlers let a
\* request edit: text fields, and URL fields with the file that replaces each.
CollectionOf(h) ==
  CASE h \in {"postBreakingNews", "putBreakingNews", "deleteBreakingNews"} -> "breakingNews"
    [] h \in {"postFeaturedStories", "putFeaturedStories", "deleteFeaturedStories"} ->
         "featuredStories"
    [] h \in {"postNews", "putNews", "deleteNews"} -> "news"
    [] h = "postPosters" -> "posters"
    [] h = "postCategories" -> "categories"
    [] h = "postStaticPages" -> "staticPages"
    [] h = "postTickers" -> "tickers"
    [] h = "postUsers" -> "users"
    [] h = "postMedia" -> "media"
    [] h = "postAds" -> "ads"

TextFields(h) ==
  CASE h = "putBreakingNews" ->
         {"headline", "shortDescription", "fullDescription", "category", "state",
          "youtubeUrl"}
    [] h = "putFeaturedStories" ->
         {"title", "description", "content", "category", "state", "excerpt"}
    [] h = "putNews" -> {"title", "content", "category"}

UrlFields(h) ==
  CASE h = "putBreakingNews" -> {<<"videoUrl", "video">>, <<"thumbnail", "thumbnail">>}
    [] h = "putFeaturedStories" -> {<<"imageUrl", "image">>}
    [] h = "putNews" -> {<<"imageUrl", "image">>}

Updates == {"putBreakingNews", "putFeaturedStories", "putNews"}
Deletes == {"deleteBreakingNews", "deleteFeaturedStories", "deleteNews"}

\* C3: after a successful update, every text field the request provided holds
\* the provided value, every field it omitted holds the value stored before,
\* and a URL field for which no file (and no value) was sent is unchanged.
C3_UpdateKeepsOmittedFields ==
  (last.h \in Updates /\ last.status = 200)
  => LET c == CollectionOf(last.h)
         idx == FindIndex(readData(last.before)[c], last.in.id)
         old == readData(last.before)[c][idx]
         new == readData(dataFile)[c][idx]
         body == last.in.body
     IN /\ \A f \in TextFields(last.h) :
             Get(new, f) = IF f \in DOMAIN body THEN body[f] ELSE Get(old, f)
        /\ last.h = "putFeaturedStories" =>
             new.priority = IF "priority" \in DOMAIN body
                              THEN NumberOf(body.priority) ELSE old.priority
        /\ \A u \in UrlFields(last.h) :
             (u[2] \notin last.in.files /\ u[1] \notin DOMAIN body)
               => Get(new, u[1]) = Get(old, u[1])

\* C4: an update or a delete is answered 404 exactly when its id is not in the
\* target collection, and then it has called writeData not once and the file
\* (the target collection and the Activity collection included) is as before.
C4_NotFoundWritesNothing ==
  (last.h \in Updates \cup Deletes)
  => /\ last.status = 404
          <=> FindIndex(Coll(readData(last.before), CollectionOf(last.h)), last.in.id) = 0
     /\ last.status = 404 =>
          /\ last.writes = 0
          /\ last.logged = <<>>
          /\ dataFile = last.before

\* C4 (witness): an update of an id the non-empty news collection lacks.
C4_MissingIdAnswered ==
  /\ last.h = "putNews"
  /\ last.status = 404
  /\ News # <<>>
  /\ FindIndex(News, last.in.id) = 0

\* C5: after a successful delete the collection holds no record with that id,
\* and deleting the id again is answered 404.
C5_DeleteRemovesId ==
  (last.h \in Deletes /\ last.status = 200)
  => LET coll == Coll(readData(dataFile), CollectionOf(last.h))
     IN /\ \A i \in 1..Len(coll) : coll[i].id # last.in.id
        /\ FindIndex(coll, last.in.id) = 0

\* C6: when an upload of a request fails, the request is answered with an
\* error and has written nothing: no call of writeData, no Activity record, and
\* the file is what it was before the failure was handled.
C6_FailedUploadWritesNothing ==
  (last.h # "none" /\ last.uploadFailed)
  => /\ last.status >= 400
     /\ last.writes = 0
     /\ last.logged = <<>>
     /\ dataFile = last.before

\* C6 (witness): the thumbnail upload of a breaking-news create failed after
\* its video upload had succeeded, while the file already held a record.
C6_SecondUploadFailed ==
  /\ last.h = "postBreakingNews"
  /\ last.uploadFailed
  /\ last.in.files = {"video", "thumbnail"}
  /\ last.body.error = "Failed to upload thumbnail"
  /\ dataFile # <<>>

\* The list operation of each collection.
List(c, disk) ==
  CASE c = "breakingNews" -> GetBreakingNews(disk)
    [] c = "featuredStories" -> GetFeaturedStories(disk)
    [] c = "news" -> GetNews(disk)
    [] c = "posters" -> GetPosters(disk)
    [] c = "categories" -> GetCategories(disk)
    [] c = "staticPages" -> GetStaticPages(disk)
    [] c = "tickers" -> GetTickers(disk)
    [] c = "users" -> GetUsers(disk)
    [] c = "media" -> [status |-> 200, body |-> readData(disk).media]
    [] c = "ads" -> GetAds(disk)

Creates ==
  {"postBreakingNews", "postFeaturedStories", "postNews", "postCategories",
   "postStaticPages", "postTickers", "postUsers", "postMedia", "postAds"}

C8_PosterListIsThree ==
  LET listed == GetPosters(dataFile)
  IN /\ listed.status = 200
     /\ Len(listed.body) = 3
     /\ \A i \in 1..3 : listed.body[i].id = i

\* C8 (witness): the posters were written over posters written before.
C8_PostersWrittenAgain ==
  /\ last.h = "postPosters"
  /\ last.status = 200
  /\ Coll(readData(last.before), "posters") # <<>>
  /\ Len(Coll(readData(dataFile), "posters")) = 3

LoginNames == {"admin", "bob", "nouser", undefined}
LoginPasswords == {"pw1", "pw2", "x", undefined}
StoredUsers == readData(dataFile).users

\* C9: no user record in a response of the user list, the user create or the
\* login has a password key.
C9_NoPasswordInResponses ==
  /\ \A i \in 1..Len(GetUsers(dataFile).body) :
       "password" \notin DOMAIN GetUsers(dataFile).body[i]
  /\ \A u \in LoginNames, pw \in LoginPasswords :
       LET r == Login(dataFile, u, pw)
       IN r.status = 200 => "password" \notin DOMAIN r.body.user
  /\ last.h = "postUsers" => "password" \notin DOMAIN last.body

\* C9 (witness): a user stored with a password has just been created, and can
\* log in.
C9_UserWithPasswordStored ==
  /\ last.h = "postUsers"
  /\ last.status = 200
  /\ \E i \in 1..Len(StoredUsers) :
       /\ Get(StoredUsers[i], "password") = "pw1"
       /\ Login(dataFile, StoredUsers[i].username, "pw1").status = 200

\* C10: a login succeeds exactly when a stored user has both the username and
\* the password given, and every login that fails gets one and the same
\* answer, whether the username is stored or not.
C10_LoginUniformFailure ==
  \A u \in LoginNames, pw \in LoginPasswords :
    LET r == Login(dataFile, u, pw)
        matches == \E i \in 1..Len(StoredUsers) :
                     /\ Get(StoredUsers[i], "username") = u
                     /\ Get(StoredUsers[i], "password") = pw
    IN /\ r.status = 200 <=> matches
       /\ r.status = 200 =>
            \E i \in 1..Len(StoredUsers) :
              /\ Get(StoredUsers[i], "username") = u
              /\ Get(StoredUsers[i], "password") = pw
              /\ r.body.user.id = StoredUsers[i].id
       /\ r.status # 200 =>
            r = Login(dataFile, "nouser", "x")

\* C10 (witness): admin is stored with password pw1; a wrong password and an
\* unknown username are both refused, the right password is accepted.
C10_WrongPasswordRefused ==
  /\ \E i \in 1..Len(StoredUsers) :
       Get(StoredUsers[i], "username") = "admin" /\ Get(StoredUsers[i], "password") = "pw1"
  /\ Login(dataFile, "admin", "pw2").status = 401
  /\ Login(dataFile, "nouser", "x").status = 401
  /\ Login(dataFile, "admin", "pw1").status = 200

\* ------------------------------------------------------------------ users
\* User creates among requests that hold a snapshot of the document across
\* their uploads (the breaking-news and poster writes), concurrently.
NoUsername == [password |-> "pw3", role |-> "editor"]

SnapshotRequest(p) ==
  \/ PostBreakingNews(p, BnFull, {"video"})
  \/ \E body \in PosterBodies : PostPosters(p, body, {"posterImage1"})

NextUsers ==
  \/ Tick
  \/ \E p \in Procs, ok \in BOOLEAN : UploadSettled(p, ok)
  \/ \E p \in Procs, body \in UserBodies \cup {NoUsername} : PostUsers(p, body)
  \/ \E p \in Procs : SnapshotRequest(p)

SpecUsers == InitWith(CrudReqs, FALSE) /\ [][NextUsers]_vars

\* C11: no two stored users have the same username, whatever the interleaving
\* of the requests; a user create is answered 400 exactly when a stored user
\* has its username, and then it has written nothing.
C11_UsernamesUnique ==
  /\ \A i, j \in 1..Len(StoredUsers) :
       Get(StoredUsers[i], "username") = Get(StoredUsers[j], "username") => i = j
  /\ last.h = "postUsers" =>
       LET stored == readData(last.before).users
           taken == \E i \in 1..Len(stored) :
                      Get(stored[i], "username") = Get(last.in.body, "username")
       IN /\ last.status = 400 <=> taken
          /\ last.status = 400 => last.writes = 0 /\ dataFile = last.before
          /\ last.status # 400 => last.status = 200 /\ last.writes = 1

\* C11 (witness): a user create that arrived while another request was in
\* flight was refused because its username is stored.
C11_DuplicateRefused ==
  /\ overlap
  /\ last.h = "postUsers"
  /\ last.status = 400
  /\ \E q \in Procs : req[q] # Idle
  /\ \E i \in 1..Len(StoredUsers) :
       Get(StoredUsers[i], "username") = Get(last.in.body, "username")

\* ------------------------------------------------------------ file admission
\* A file of a multipart request: the extension of its original name
\* (path.extname(...).toLowerCase()) and the MIME type the client declared.
Png == [ext |-> ".png", mimetype |-> "image/png"]
Avif == [ext |-> ".avif", mimetype |-> "image/avif"]
Mp4 == [ext |-> ".mp4", mimetype |-> "video/mp4"]
Exe == [ext |-> ".exe", mimetype |-> "application/octet-stream"]

\* The characters of the strings the filters meet: extensions and declared
\* MIME types of files, and the alternatives of the regular expressions.
Chars(s) ==
  CASE s = ".png" -> <<".", "p", "n", "g">>
    [] s = ".avif" -> <<".", "a", "v", "i", "f">>
    [] s = ".mp4" -> <<".", "m", "p", "4">>
    [] s = ".exe" -> <<".", "e", "x", "e">>
    [] s = ".jpg" -> <<".", "j", "p", "g">>
    [] s = ".movie" -> <<".", "m", "o", "v", "i", "e">>
    [] s = ".wmv" -> <<".", "w", "m", "v">>
    [] s = ".apng" -> <<".", "a", "p", "n", "g">>
    [] s = "" -> <<>>
    [] s = "image/png" -> <<"i", "m", "a", "g", "e", "/", "p", "n", "g">>
    [] s = "image/avif" -> <<"i", "m", "a", "g", "e", "/", "a", "v", "i", "f">>
    [] s = "video/mp4" -> <<"v", "i", "d", "e", "o", "/", "m", "p", "4">>
    [] s = "application/octet-stream" -> <<"a", "p", "p", "l", "i", "c", "a", "t", "i", "o", "n", "/", "o", "c", "t", "e", "t", "-", "s", "t", "r", "e", "a", "m">>
    [] s = "image/jpeg" -> <<"i", "m", "a", "g", "e", "/", "j", "p", "e", "g">>
    [] s = "video/quicktime" -> <<"v", "i", "d", "e", "o", "/", "q", "u", "i", "c", "k", "t", "i", "m", "e">>
    [] s = "video/mp4v-es" -> <<"v", "i", "d", "e", "o", "/", "m", "p", "4", "v", "-", "e", "s">>
    [] s = "video/x-ms-wmv" -> <<"v", "i", "d", "e", "o", "/", "x", "-", "m", "s", "-", "w", "m", "v">>
    [] s = "jpeg" -> <<"j", "p", "e", "g">>
    [] s = "jpg" -> <<"j", "p", "g">>
    [] s = "png" -> <<"p", "n", "g">>
    [] s = "gif" -> <<"g", "i", "f">>
    [] s = "webp" -> <<"w", "e", "b", "p">>
    [] s = "avif" -> <<"a", "v", "i", "f">>
    [] s = "mp4" -> <<"m", "p", "4">>
    [] s = "mov" -> <<"m", "o", "v">>
    [] s = "avi" -> <<"a", "v", "i">>
    [] s = "wmv" -> <<"w", "m", "v">>
    [] s = "image/jpg" -> <<"i", "m", "a", "g", "e", "/", "j", "p", "g">>
    [] s = "image/gif" -> <<"i", "m", "a", "g", "e", "/", "g", "i", "f">>
    [] s = "image/webp" -> <<"i", "m", "a", "g", "e", "/", "w", "e", "b", "p">>
    [] s = "video/avi" -> <<"v", "i", "d", "e", "o", "/", "a", "v", "i">>
    [] s = "video/x-msvideo" -> <<"v", "i", "d", "e", "o", "/", "x", "-", "m", "s", "v", "i", "d", "e", "o">>

\* String.prototype.includes on characters: pat occurs somewhere in s.
Includes(s, pat) ==
  \E i \in 0..(Len(s) - Len(pat)) : SubSeq(s, i + 1, i + Len(pat)) = pat

\* /a|b|c/.test(s): one of the alternatives occurs somewhere in s (the test
\* is not anchored). The group of /image\/(jpeg|...)/ and /video\/(mp4|...)/
\* is given multiplied out.
Test(alternatives, s) == \E a \in alternatives : Includes(Chars(s), Chars(a))

\* posterUpload's fileFilter: cb(null, true) or cb(new Error(...)).
posterUploadFileFilter(file) ==
  LET imageExtTypes == {"jpeg", "jpg", "png", "gif", "webp", "avif"}
      imageMimeTypes == {"image/jpeg", "image/jpg", "image/png", "image/gif",
                         "image/webp", "image/avif"}
      extname == Test(imageExtTypes, file.ext)
      mimetype == Test(imageMimeTypes, file.mimetype)
  IN extname /\ mimetype

\* breakingNewsUpload's fileFilter.
breakingNewsUploadFileFilter(file) ==
  LET videoExtTypes == {"mp4", "mov", "avi", "wmv"}
      videoMimeTypes == {"video/mp4", "video/quicktime", "video/avi", "video/x-msvideo"}
      imageExtTypes == {"jpeg", "jpg", "png", "gif", "webp"}
      imageMimeTypes == {"image/jpeg", "image/jpg", "image/png", "image/gif", "image/webp"}
      isValidVideo == Test(videoExtTypes, file.ext) /\ Test(videoMimeTypes, file.mimetype)
      isValidImage == Test(imageExtTypes, file.ext) /\ Test(imageMimeTypes, file.mimetype)
  IN isValidVideo \/ isValidImage

\* The filter of the upload middleware each route is declared with.
FileFilter(h, file) ==
  IF h \in {"postBreakingNews", "putBreakingNews"}
    THEN breakingNewsUploadFileFilter(file)
    ELSE posterUploadFileFilter(file)

\* Mutant: the handler runs as soon as one file of the request is accepted.
AdmittedIfAny(h, descs) ==
  DOMAIN descs = {} \/ \E f \in DOMAIN descs : FileFilter(h, descs[f])

\* The middleware calls the handler only when the filter accepted every file;
\* the first Error a filter passes to cb ends the request instead.
Admitted(h, descs) == \A f \in DOMAIN descs : FileFilter(h, descs[f])

\* The answer to a request whose file the filter refused: the Error goes to
\* next(err), and the framework answers 500 with the error page.
FileRefused(disk) == Done(disk, 500, [page |-> "Error: Invalid file type"], 0, <<>>)

\* The handler's step from its start to its first await or its answer.
Begin(h, in, disk, t) ==
  CASE h = "postBreakingNews" -> PostBreakingNewsBegin(in, disk, t)
    [] h = "putBreakingNews" -> PutBreakingNewsBegin(in, disk, t)
    [] h = "postFeaturedStories" -> PostFeaturedStoriesBegin(in, disk, t)
    [] h = "putFeaturedStories" -> PutFeaturedStoriesBegin(in, disk, t)
    [] h = "postNews" -> PostNewsBegin(in, disk, t)
    [] h = "putNews" -> PutNewsBegin(in, disk, t)
    [] h = "postPosters" -> PostPostersBegin(in, disk, t)
    [] h = "postMedia" -> PostMediaBegin(in, disk, t)
    [] h = "postAds" -> PostAdsBegin(in, disk, t)

\* A multipart request for handler h: descs maps each field that carries a
\* file to that file (the updates of the workload below are of the record
\* created in the first millisecond).
Multipart(p, h, id, body, descs) ==
  LET in == [id |-> id, body |-> body, files |-> DOMAIN descs, descs |-> descs,
             mimetype |-> IF "file" \in DOMAIN descs THEN descs["file"].mimetype
                          ELSE undefined]
  IN /\ Arrive(p)
     /\ Settle(p, h, in, IF Admitted(h, descs) THEN Begin(h, in, dataFile, now)
                         ELSE FileRefused(dataFile))

\* The files of a request: a file of one of `kinds` in each field of some
\* subset of `fields`.
FilesIn(fields, kinds) ==
  UNION {[fs -> kinds] : fs \in SUBSET fields}

NextAdmit ==
  \/ Tick
  \/ \E p \in Procs, ok \in BOOLEAN : UploadSettled(p, ok)
  \/ \E p \in Procs, descs \in FilesIn({"video", "thumbnail"}, {Mp4, Exe}) :
       Multipart(p, "postBreakingNews", 0, BnFull, descs)
  \/ \E p \in Procs, descs \in FilesIn({"thumbnail"}, {Png, Avif}) :
       Multipart(p, "putBreakingNews", 1, BnHeadlineOnly, descs)
  \/ \E p \in Procs, descs \in FilesIn({"image"}, {Avif, Mp4}) :
       Multipart(p, "postFeaturedStories", 0, FsFull, descs)
  \/ \E p \in Procs, descs \in FilesIn({"image"}, {Png, Exe}) :
       Multipart(p, "putFeaturedStories", 1, FsFull, descs)
  \/ \E p \in Procs, descs \in FilesIn({"image"}, {Png, Exe}) :
       Multipart(p, "postNews", 0, NewsFull, descs)
  \/ \E p \in Procs, descs \in FilesIn({"image"}, {Avif, Mp4}) :
       Multipart(p, "putNews", 1, NewsFull, descs)
  \/ \E p \in Procs, descs \in FilesIn({"posterImage1", "posterImage2"}, {Png, Exe}) :
       Multipart(p, "postPosters", 0, [poster1Title |-> "P1"], descs)
  \/ \E p \in Procs, descs \in FilesIn({"file"}, {Png, Mp4}) :
       Multipart(p, "postMedia", 0, [title |-> "m"], descs)
  \/ \E p \in Procs, descs \in FilesIn({"image"}, {Avif, Exe}) :
       Multipart(p, "postAds", 0, [title |-> "ad"], descs)

SpecAdmit == InitWith(MaxReqs, FALSE) /\ [][NextAdmit]_vars

\* C12: a request with a file that its route's filter refuses is rejected
\* without the handler having run: it has made no upload call, called
\* writeData and logActivity not once and left the file as it was; and no
\* request with such a file is ever waiting for an upload.
C12_RefusedFileStopsRequest ==
  /\ (last.h # "none" /\ \E f \in DOMAIN last.in.descs :
                           ~FileFilter(last.h, last.in.descs[f]))
     => /\ last.status = 500
        /\ last.uploads = 0
        /\ last.writes = 0
        /\ last.logged = <<>>
        /\ dataFile = last.before
  /\ \A p \in Procs :
       req[p] # Idle => \A f \in DOMAIN req[p].in.descs :
                          FileFilter(req[p].h, req[p].in.descs[f])

\* C12 (witness): a breaking-news create whose video is accepted and whose
\* thumbnail is refused has been rejected, with records in the file and
\* another request waiting for its upload.
C12_SecondFileRefused ==
  /\ last.h = "postBreakingNews"
  /\ last.in.descs = [video |-> Mp4, thumbnail |-> Exe]
  /\ last.status = 500
  /\ last.uploads = 0
  /\ dataFile # <<>>
  /\ dataFile = last.before

\* ------------------------------------------------------ persistence failures
\* readData throws when data.json cannot be read or parsed, writeData when it
\* cannot be written.  What becomes of the exception depends on the handler:
\* these handlers run their body in try { ... } catch (error) and answer from
\* the catch with the error body given by CatchBody.
Guarded ==
  {"getPosters", "postPosters", "postBreakingNews", "putBreakingNews",
   "deleteBreakingNews", "getBreakingNewsByCategory", "getFeaturedStories",
   "postFeaturedStories", "putFeaturedStories", "deleteFeaturedStories",
   "getFeaturedStoriesByCategory", "getCategory", "postMedia", "postNews",
   "putNews", "deleteNews", "postAds"}

\* These handlers call readData and writeData outside any try block.
Unguarded ==
  {"login", "getBreakingNews", "getCategories", "postCategories", "getActivities",
   "getNews", "getStaticPages", "postStaticPages", "getTickers", "postTickers",
   "getAds", "getUsers", "postUsers"}

\* The handlers that call writeData (all of them call readData).
Saving ==
  {"postPosters", "postBreakingNews", "putBreakingNews", "deleteBreakingNews",
   "postFeaturedStories", "putFeaturedStories", "deleteFeaturedStories",
   "postMedia", "postNews", "putNews", "deleteNews", "postAds",
   "postCategories", "postStaticPages", "postTickers", "postUsers"}

\* The handlers that upload before they load the document.
LoadsAfterUpload == {"postFeaturedStories", "postMedia", "postNews", "postAds"}

PersistenceMessage(call) ==
  IF call = "readData" THEN "Unexpected token in JSON" ELSE "EACCES: permission denied"

CatchBody(h, message) ==
  CASE h = "getPosters" -> [error |-> "Failed to fetch posters"]
    [] h = "postPosters" -> [error |-> "Failed to update posters: " \o message]
    [] h = "postBreakingNews" ->
         [error |-> "Failed to add breaking news", details |-> message]
    [] h = "putBreakingNews" ->
         [error |-> "Failed to update breaking news", details |-> message]
    [] h = "deleteBreakingNews" -> [error |-> "Failed to delete breaking news"]
    [] h = "getBreakingNewsByCategory" ->
         [error |-> "Failed to fetch breaking news by category"]
    [] h = "getFeaturedStories" -> [error |-> "Failed to fetch featured stories"]
    [] h = "postFeaturedStories" ->
         [error |-> "Failed to create featured story", details |-> message]
    [] h = "putFeaturedStories" ->
         [error |-> "Failed to update featured story", details |-> message]
    [] h = "deleteFeaturedStories" -> [error |-> "Failed to delete featured story"]
    [] h = "getFeaturedStoriesByCategory" ->
         [error |-> "Failed to fetch featured stories by category"]
    [] h = "getCategory" -> [error |-> "Failed to fetch content by category"]
    [] h = "postMedia" -> [error |-> "Failed to upload media"]
    [] h = "postNews" -> [error |-> "Failed to add news"]
    [] h = "putNews" -> [error |-> "Failed to update news"]
    [] h = "deleteNews" -> [error |-> "Failed to delete news"]
    [] h = "postAds" -> [error |-> "Failed to add advertisement"]

\* The exception leaves the handler: the framework's error handler answers
\* 500 with its error page.
Escaped(disk, message) == Done(disk, 500, [page |-> message], 0, <<>>)

\* Handler h when its call of readData or writeData throws; the file is left
\* as it was.
Thrown(h, call, disk) ==
  IF h \in Guarded
    THEN Done(disk, 500, CatchBody(h, PersistenceMessage(call)), 0, <<>>)
    ELSE Escaped(disk, PersistenceMessage(call))

\* A request without files whose handler fails at its load or at its save.
RequestFails(p, h, call) ==
  /\ h # "postMedia"
  /\ call = "writeData" => h \in Saving
  /\ Arrive(p)
  /\ Settle(p, h, [fails |-> call, files |-> {}], Thrown(h, call, dataFile))

\* The last upload of a request succeeds and the load or the save that
\* follows it fails.
UploadSettledThenFails(p, call) ==
  /\ req[p] # Idle
  /\ Len(req[p].todo) = 1
  /\ call = "readData" => req[p].h \in LoadsAfterUpload
  /\ Settle(p, req[p].h, [fails |-> call] @@ req[p].in, Thrown(req[p].h, call, dataFile))
  /\ UNCHANGED <<now, overlap, left, serial>>

NextPersist ==
  \/ Tick
  \/ \E p \in Procs, ok \in BOOLEAN : UploadSettled(p, ok)
  \/ \E p \in Procs : UploadingRequest(p)
  \/ \E p \in Procs, body \in CategoryBodies : PostCategories(p, body)
  \/ \E p \in Procs, h \in Guarded \cup Unguarded, call \in {"readData", "writeData"} :
       RequestFails(p, h, call)
  \/ \E p \in Procs, call \in {"readData", "writeData"} : UploadSettledThenFails(p, call)

SpecPersist == InitWith(MaxReqs, TRUE) /\ [][NextPersist]_vars

\* C13: a handler whose load or save of the document fails answers with an
\* HTTP error status and its own JSON error body; the failure does not leave
\* the handler.
C13_PersistenceErrorAnswered ==
  (last.h # "none" /\ "fails" \in DOMAIN last.in)
  => /\ last.status >= 400
     /\ "error" \in DOMAIN last.body

\* -------------------------------------------------------- category queries
\* Mutant: the comparison is of the strings as they are.
AsWritten(s) == s

\* String.prototype.toLowerCase on the category names of the workloads.
toLowerCase(s) ==
  CASE s = "World" -> "world"
    [] s = "WORLD" -> "world"
    [] s = "Sports" -> "sports"
    [] OTHER -> s

\* x => x.category && x.category.toLowerCase() === category.toLowerCase()
CategoryMatches(x, category) ==
  /\ Truthy(Get(x, "category"))
  /\ toLowerCase(x.category) = toLowerCase(category)

\* array.filter(...)
Filter(seq, category) == SelectSeq(seq, LAMBDA x : CategoryMatches(x, category))

\* GET /api/breaking-news/category/:category
GetBreakingNewsByCategory(disk, category) ==
  [status |-> 200, body |-> Filter(readData(disk).breakingNews, category)]

\* GET /api/featured-stories/category/:category
GetFeaturedStoriesByCategory(disk, category) ==
  [status |-> 200, body |-> Filter(Coll(readData(disk), "featuredStories"), category)]

\* GET /api/category/:category
GetCategory(disk, category) ==
  LET data == readData(disk)
  IN [status |-> 200,
      body |-> [breakingNews |-> Filter(Coll(data, "breakingNews"), category),
                featuredStories |-> Filter(Coll(data, "featuredStories"), category),
                news |-> Filter(Coll(data, "news"), category),
                category |-> category]]

NewsEmptyCategory == [title |-> "E", content |-> "F", category |-> ""]

\* Creates without files and with or without a category, and deletes, one
\* request at a time.
NextCategory ==
  \/ Tick
  \/ \E p \in Procs, body \in BnBodies : PostBreakingNews(p, body, {})
  \/ \E p \in Procs, body \in {FsFull, FsTitleOnly} : PostFeaturedStories(p, body, {})
  \/ \E p \in Procs, body \in NewsBodies \cup {NewsEmptyCategory} : PostNews(p, body, {})
  \/ \E p \in Procs, id \in Ids : DeleteNews(p, id)

SpecCategory == InitWith(CrudReqs, TRUE) /\ [][NextCategory]_vars

CategoryNames == {"world", "World", "WORLD", "sports"}

\* Two names that differ at most in the case of their letters.
SameIgnoringCase(a, b) ==
  a = b \/ \E class \in {{"world", "World", "WORLD"}, {"sports", "Sports"}} :
             a \in class /\ b \in class

\* The records of seq with category c ignoring case, in stored order.
InCategory(seq, c) ==
  LET idxs == {i \in 1..Len(seq) :
                 "category" \in DOMAIN seq[i] /\ seq[i].category # ""
                   /\ SameIgnoringCase(seq[i].category, c)}
      Nth(k) == CHOOSE i \in idxs : Cardinality({j \in idxs : j < i}) = k - 1
  IN [k \in 1..Cardinality(idxs) |-> seq[Nth(k)]]

\* C14: for every category name the cross-entity query answers 200 with, for
\* each of breaking news, featured stories and news, exactly the stored records
\* of that kind whose category is the name ignoring case, in stored order
\* (none when nothing matches, never a record without a category), the same as
\* the kind's own category query; and an article created with category
\* "world" and no file has imageUrl "" and is listed under news for "world".
C14_CategoryAggregate ==
  /\ \A c \in CategoryNames :
       LET r == GetCategory(dataFile, c)
       IN /\ r.status = 200
          /\ r.body.breakingNews = InCategory(BreakingNews, c)
          /\ r.body.featuredStories = InCategory(FeaturedStories, c)
          /\ r.body.news = InCategory(News, c)
          /\ r.body.breakingNews = GetBreakingNewsByCategory(dataFile, c).body
          /\ r.body.featuredStories = GetFeaturedStoriesByCategory(dataFile, c).body
  /\ (last.h = "postNews" /\ last.in.body = NewsFull /\ last.in.files = {}
        /\ last.status = 200)
     => /\ last.body.imageUrl = ""
        /\ Contains(GetCategory(dataFile, "world").body.news, last.body)

\* C14 (witness): the article of the scenario has been created after a
\* breaking-news item of category "World" and an article without category;
\* the query for "world" answers the item and the one article.
C14_WorldListed ==
  /\ last.h = "postNews" /\ last.in.body = NewsFull /\ last.status = 200
  /\ Len(News) = 2
  /\ "category" \notin DOMAIN News[1]
  /\ GetCategory(dataFile, "world").body.news = <<last.body>>
  /\ Len(GetCategory(dataFile, "world").body.breakingNews) = 1
  /\ GetCategory(dataFile, "sports").body.news = <<>>

\* ------------------------------------------------------------------ load
Collections ==
  {"posters", "breakingNews", "featuredStories", "categories", "users", "media",
   "news", "staticPages", "tickers", "ads", "activities"}

\* C15: while data.json does not exist, the document readData returns has
\* each of the eleven collections posters, breakingNews, featuredStories,
\* categories, users, media, news, staticPages, tickers, ads and activities,
\* and each is the empty sequence.
C15_LoadDefaultDocument ==
  dataFile = <<>>
  => \A c \in Collections :
       c \in DOMAIN readData(dataFile) /\ readData(dataFile)[c] = <<>>

\* ---------------------------------------------------------- staging files
\* Uploading requests, concurrently, with uploads that fail and staging files
\* that cannot be removed.
NextGateway ==
  \/ Tick
  \/ \E p \in Procs, ok \in BOOLEAN : UploadSettled(p, ok)
  \/ \E p \in Procs : UploadSettledUnlinkFails(p)
  \/ \E p \in Procs, files \in BnFiles : PostBreakingNews(p, BnFull, files)
  \/ \E p \in Procs, files \in PosterFileSets : PostPosters(p, [poster3Title |-> "P3"], files)
  \/ \E p \in Procs, files \in ImageFiles : PutNews(p, 1, NewsFull, files)
  \/ \E p \in Procs, files \in ImageFiles : PostNews(p, NewsFull, files)

SpecGateway == InitWith(MaxReqs, FALSE) /\ [][NextGateway]_vars

\* What C16 asks of one call of the Upload Gateway.
GatewayCallOk(call) ==
  /\ call.after \ {call.field} = call.before \ {call.field}
  /\ call.field \in call.before
  /\ call.ok =>
       /\ call.result.ok
       /\ call.result.url = SecureUrl(call.folder)
       /\ call.unlinked => call.field \notin call.after
  /\ ~call.ok =>
       /\ call.field \in call.after
       /\ ~call.result.ok
       /\ call.result.message = "Failed to upload to Cloudinary: cause"

\* C16: after a call of the gateway whose upload succeeded the staging file
\* of the uploaded field is gone and the call has returned the URL (the URL
\* also when the file could not be removed); after a call whose upload failed
\* the staging file is still there and the call has thrown the upload error
\* with its cause; the other staging files are untouched either way.
C16_StagingFiles ==
  /\ (last.h # "none" /\ last.gateway # <<>>) => GatewayCallOk(last.gateway)
  /\ \A p \in Procs :
       (req[p] # Idle /\ req[p].gateway # <<>>) => GatewayCallOk(req[p].gateway)
  /\ (last.h # "none" /\ last.uploadFailed) => ~last.gateway.ok

\* C16 (witness): the thumbnail upload of a request failed after its video had
\* been uploaded and the video's staging file could not be removed: both files
\* are in the staging directory.
C16_BothFilesLeft ==
  /\ last.h = "postBreakingNews"
  /\ last.uploadFailed
  /\ last.gateway.field = "thumbnail"
  /\ last.gateway.before = {"video", "thumbnail"}
  /\ last.gateway.after = {"video", "thumbnail"}

\* ------------------------------------------------------- activity logging
Logging ==
  {"postFeaturedStories", "putFeaturedStories", "deleteFeaturedStories",
   "postNews", "putNews", "deleteNews"}

StatusLogged(h) ==
  CASE h \in {"postFeaturedStories", "postNews"} -> "published"
    [] h \in {"putFeaturedStories", "putNews"} -> "updated"
    [] h \in {"deleteFeaturedStories", "deleteNews"} -> "deleted"

\* C17: a create, update or delete of a featured story or an article after
\* which the stored collection differs from what it was has, in the same step,
\* saved the change and then logged exactly one Activity of the matching
\* status, which is the first record of the Activity collection, in front of
\* the records the request's document held.
C17_ChangeIsLogged ==
  (last.h \in Logging
     /\ Coll(readData(dataFile), CollectionOf(last.h))
          # Coll(readData(last.before), CollectionOf(last.h)))
  => /\ last.writes = 2
     /\ Len(last.logged) = 1
     /\ last.logged[1].status = StatusLogged(last.h)
     /\ Activities = Take(last.logged \o Coll(last.loaded, "activities"), ActivityCap)

\* ------------------------------------------------ handlers that do not log
\* The handlers that never call logActivity, among articles being published,
\* concurrently.
NextFrame ==
  \/ Tick
  \/ \E p \in Procs, ok \in BOOLEAN : UploadSettled(p, ok)
  \/ \E p \in Procs : PostNews(p, NewsFull, {})
  \/ \E p \in Procs, files \in {{}, {"video"}} : PostBreakingNews(p, BnFull, files)
  \/ \E p \in Procs, id \in Ids, files \in {{}, {"thumbnail"}} :
       PutBreakingNews(p, id, BnHeadlineOnly, files)
  \/ \E p \in Procs, id \in Ids : DeleteBreakingNews(p, id)
  \/ \E p \in Procs, files \in {{}, {"posterImage1"}} :
       PostPosters(p, [poster1Title |-> "P1"], files)
  \/ \E p \in Procs, body \in AdBodies, files \in ImageFiles : PostAds(p, body, files)
  \/ \E p \in Procs, body \in MediaBodies : PostMedia(p, body, {"file"})
  \/ \E p \in Procs, body \in TickerBodies : PostTickers(p, body)
  \/ \E p \in Procs, body \in CategoryBodies : PostCategories(p, body)
  \/ \E p \in Procs : PostUsers(p, [username |-> "bob"])

SpecFrame == InitWith(MaxReqs, FALSE) /\ [][NextFrame]_vars

NotLogging ==
  {"postBreakingNews", "putBreakingNews", "deleteBreakingNews", "postPosters",
   "postAds", "postTickers", "postCategories", "postMedia", "postUsers"}

\* C18 (as stated): after a save by a breaking-news, poster, ad, ticker,
\* category, media or user request the Activity collection is what it was
\* immediately before that save.
C18_SaveLeavesLog ==
  (last.h \in NotLogging /\ last.writes > 0)
  => Activities = Coll(readData(last.before), "activities")

\* C18 (amended): such a request logs no activity, and its save writes the
\* Activity collection of the document the request loaded: what it was before
\* the save whenever no request has run between the load and the save, as with
\* one request at a time and in the handlers that load after their uploads.
C18_SaveWritesLoadedLog ==
  last.h \in NotLogging
  => /\ last.logged = <<>>
     /\ last.writes <= 1
     /\ last.writes = 1 => Activities = Coll(last.loaded, "activities")
     /\ (last.writes = 1 /\ (~overlap \/ last.h \notin {"postBreakingNews",
                                                       "putBreakingNews", "postPosters"}))
          => Activities = Coll(readData(last.before), "activities")
     /\ last.writes = 0 => dataFile = last.before

\* C18 (witness): a breaking-news create saved the document it had loaded
\* before an article was published, and the Activity of the article is gone.
C18_LogReverted ==
  /\ last.h = "postBreakingNews" /\ last.status = 200
  /\ last.prev.h = "postNews" /\ last.prev.status = 200
  /\ Len(Coll(readData(last.before), "activities")) = 1
  /\ Activities = <<>>
  /\ hist # <<>>

\* ------------------------------------------------------------------ order
\* Creates, updates and deletes of breaking news, featured stories and
\* articles and creates of categories, without files, one request at a time.
NextOrder ==
  \/ Tick
  \/ \E p \in Procs, body \in BnBodies : PostBreakingNews(p, body, {})
  \/ \E p \in Procs, id \in Ids : PutBreakingNews(p, id, BnHeadlineOnly, {})
  \/ \E p \in Procs, id \in Ids : DeleteBreakingNews(p, id)
  \/ \E p \in Procs, body \in {NewsFull, NewsNoTitle} : PostNews(p, body, {})
  \/ \E p \in Procs, id \in Ids : PutNews(p, id, NewsEmptyTitle, {})
  \/ \E p \in Procs, id \in Ids : DeleteNews(p, id)
  \/ \E p \in Procs : PostFeaturedStories(p, FsFull, {})
  \/ \E p \in Procs, id \in Ids : DeleteFeaturedStories(p, id)
  \/ \E p \in Procs, body \in CategoryBodies : PostCategories(p, body)

SpecOrder == InitWith(CrudReqs, TRUE) /\ [][NextOrder]_vars

\* The ids of the records are their times of creation.
NewestFirst(seq) == \A i, j \in 1..Len(seq) : i < j => seq[i].id >= seq[j].id
OldestFirst(seq) == \A i, j \in 1..Len(seq) : i < j => seq[i].id <= seq[j].id

LiveRequest(p) ==
  \/ PostBreakingNews(p, BnFull, {"video", "thumbnail"})
  \/ PutBreakingNews(p, 1, BnHeadlineOnly, {"thumbnail"})
  \/ PostFeaturedStories(p, FsFull, {"image"})
  \/ PutFeaturedStories(p, 1, FsTitleOnly, {"image"})
  \/ PostNews(p, NewsFull, {"image"})
  \/ PutNews(p, 1, NewsEmptyTitle, {"image"})
  \/ PostPosters(p, [poster3Title |-> "P3"], {"posterImage2", "posterImage3"})
  \/ PostMedia(p, [title |-> "m"], {"file"})
  \/ PostAds(p, [title |-> "ad"], {"image"})
  \/ DeleteNews(p, 1)

NextLive ==
  \/ Tick
  \/ \E p \in Procs, ok \in BOOLEAN : UploadSettled(p, ok)
  \/ \E p \in Procs : LiveRequest(p)

\* Every upload call returns: the media host settles each pending upload, with
\* success or with failure (its timeout of 60 seconds is a failure).
SpecLive ==
  /\ InitWith(MaxReqs, FALSE)
  /\ [][NextLive]_vars
  /\ \A p \in Procs : WF_vars(\E ok \in BOOLEAN : UploadSettled(p, ok))

ProbeExts == {".png", ".jpg", ".avif", ".apng", ".mp4", ".wmv", ".movie", ".exe", ""}

ProbeMimes ==
  {"image/png", "image/jpeg", "image/avif", "video/mp4", "video/quicktime",
   "video/x-ms-wmv", "video/mp4v-es", "application/octet-stream"}

ProbeFiles == [ext : ProbeExts, mimetype : ProbeMimes]

\* The allow-list of the image fields: the extension is one of the allowed
\* extensions and the MIME type is one of the allowed MIME types.
ImageAllowListed(file) ==
  /\ file.ext \in {".jpeg", ".jpg", ".png", ".gif", ".webp", ".avif"}
  /\ file.mimetype \in {"image/jpeg", "image/jpg", "image/png", "image/gif",
                        "image/webp", "image/avif"}

\* The allow-list of the breaking-news fields: a video with a video MIME type
\* or an image with an image MIME type (the MIME types the filter names).
BreakingNewsAllowListed(file) ==
  \/ /\ file.ext \in {".mp4", ".mov", ".avi", ".wmv"}
     /\ file.mimetype \in {"video/mp4", "video/quicktime", "video/avi", "video/x-msvideo"}
  \/ /\ file.ext \in {".jpeg", ".jpg", ".png", ".gif", ".webp"}
     /\ file.mimetype \in {"image/jpeg", "image/jpg", "image/png", "image/gif",
                           "image/webp"}

AllowListed(h, file) ==
  IF h \in {"postBreakingNews", "putBreakingNews"}
    THEN BreakingNewsAllowListed(file)
    ELSE ImageAllowListed(file)

NextFilter ==
  \/ Tick
  \/ \E p \in Procs, ok \in BOOLEAN : UploadSettled(p, ok)
  \/ \E p \in Procs, file \in ProbeFiles :
       Multipart(p, "postNews", 0, NewsFull, [image |-> file])
  \/ \E p \in Procs, file \in ProbeFiles :
       Multipart(p, "postBreakingNews", 0, BnFull, [thumbnail |-> file])

SpecFilter == InitWith(MaxReqs, TRUE) /\ [][NextFilter]_vars

\* C21: a file is admitted by an upload field exactly when its extension and
\* its MIME type are both on the field's allow-list: the filter accepts the
\* file, and the handler goes on to upload it, if and only if the pair is
\* allow-listed; every other pair is rejected.
C21_AdmittedIffAllowListed ==
  last.h # "none" =>
    \A f \in DOMAIN last.in.descs :
      /\ FileFilter(last.h, last.in.descs[f]) <=> AllowListed(last.h, last.in.descs[f])
      /\ last.uploads > 0 <=> AllowListed(last.h, last.in.descs[f])

\* ---------------------------------------------------------- serial equivalence
\* The handlers that load the document before they await an upload.
LoadsBeforeUpload ==
  {"postPosters", "postBreakingNews", "putBreakingNews", "putFeaturedStories", "putNews"}

\* The first step of handler h, for every handler that saves.
Handle(h, in, disk, t) ==
  CASE h = "deleteBreakingNews" -> DeleteBreakingNewsRun(in, disk, t)
    [] h = "deleteFeaturedStories" -> DeleteFeaturedStoriesRun(in, disk, t)
    [] h = "deleteNews" -> DeleteNewsRun(in, disk, t)
    [] h = "postCategories" -> PostCategoriesRun(in, disk, t)
    [] h = "postStaticPages" -> PostStaticPagesRun(in, disk, t)
    [] h = "postTickers" -> PostTickersRun(in, disk, t)
    [] h = "postUsers" -> PostUsersRun(in, disk, t)
    [] OTHER -> Begin(h, in, disk, t)

\* The handler carried on from result r with no other request in between: the
\* file stays `disk` over its `calls` uploads, the last of which fails when
\* `failed`.
RECURSIVE Drain(_, _, _, _, _)
Drain(r, disk, t, calls, failed) ==
  IF r.k = "done" THEN r
  ELSE Drain(Resume(r.st, ~(failed /\ calls = 1), disk, t), disk, t, calls - 1, failed)

\* The request handled alone, from the file `disk`, at time t.
Alone(h, in, disk, t, calls, failed) ==
  Drain(Handle(h, in, disk, t), disk, t, calls, failed)

NextSerial ==
  \/ Tick
  \/ \E p \in Procs, ok \in BOOLEAN : UploadSettled(p, ok)
  \/ \E p \in Procs, files \in ImageFiles : PostNews(p, NewsFull, files)
  \/ \E p \in Procs, body \in {FsFull, FsNoTitle} : PostFeaturedStories(p, body, {"image"})
  \/ \E p \in Procs : PostMedia(p, [title |-> "m"], {"file"})
  \/ \E p \in Procs : PostAds(p, [title |-> "ad"], {"image"})
  \/ \E p \in Procs : PostCategories(p, [name |-> "World"])
  \/ \E p \in Procs : PutNews(p, 1, NewsEmptyTitle, {})
  \/ \E p \in Procs : DeleteNews(p, 1)
  \/ \E p \in Procs, files \in {{}, {"thumbnail"}} : PostBreakingNews(p, BnFull, files)

SpecSerial == InitWith(MaxReqs, FALSE) /\ [][NextSerial]_vars

\* C22: only a handler that loaded the document before awaiting an upload can
\* save over another request's change. The save of every other request (one
\* that made no upload, or a create that loads after its upload) leaves the
\* file exactly as the same request handled alone on the file of that moment
\* would: the file is always the outcome of the requests one after another in
\* the order of their saves.
C22_SavesInSomeOrder ==
  (last.h # "none" /\ ~(last.h \in LoadsBeforeUpload /\ last.uploads > 0))
    => /\ last.uploads > 0 => last.h \in LoadsAfterUpload
       /\ \E t \in 1..now :
            LET alone == Alone(last.h, last.in, last.before, t, last.uploads,
                               last.uploadFailed)
            IN /\ alone.disk = dataFile
               /\ alone.status = last.status

\* C22 (witness): a news create that waited for its upload while another
\* request saved has been answered 200; the file holds the other request's
\* change and the new article.
C22_SavedAfterOthers ==
  /\ overlap
  /\ last.h = "postNews"
  /\ last.uploads = 1
  /\ last.status = 200
  /\ last.prev.h = "postCategories"
  /\ Len(News) = 1
  /\ Len(readData(dataFile).categories) = 1

\* ------------------------------------------------------------ failed requests
ErrorStatuses == {400, 404, 500}

\* C23: a request answered with an error status (400, 404 or 500) has written
\* nothing: its entity collection and the Activity collection in the file are
\* what they were before the request's answering step, for every input, also
\* a featured story or an article sent without a title.
C23_ErrorWritesNothing ==
  (last.h # "none" /\ last.status \in ErrorStatuses)
  => /\ Coll(readData(dataFile), CollectionOf(last.h))
          = Coll(readData(last.before), CollectionOf(last.h))
     /\ Activities = Coll(readData(last.before), "activities")

\* ---------------------------------------------------------------- read routes
ListRoutes ==
  {"getPosters", "getBreakingNews", "getFeaturedStories", "getCategories",
   "getActivities", "getNews", "getStaticPages", "getTickers", "getAds", "getUsers"}

CategoryRoutes ==
  {"getBreakingNewsByCategory", "getFeaturedStoriesByCategory", "getCategory"}

ReadOnly == ListRoutes \cup CategoryRoutes \cup {"login"}

\* Mutant: the poster list saves the document with the placeholders it pushed.
GetPostersRunSaves(in, disk, t) ==
  LET data == readData(disk)
      posters == PadPosters(Coll(data, "posters"))
  IN Done(writeData([data EXCEPT !.posters = posters]), 200, JsonArray(posters), 1, <<>>)

\* GET /api/posters as a handler: the placeholders are pushed onto the array
\* of the document in memory, which the handler does not save.
GetPostersRun(in, disk, t) ==
  LET data == readData(disk)
      posters == PadPosters(Coll(data, "posters"))
  IN Done(disk, 200, JsonArray(posters), 0, <<>>)

\* What a read route answers from the file.
ReadAnswer(h, in, disk) ==
  CASE h = "getBreakingNews" -> GetBreakingNews(disk)
    [] h = "getFeaturedStories" -> GetFeaturedStories(disk)
    [] h = "getCategories" -> GetCategories(disk)
    [] h = "getActivities" -> GetActivities(disk)
    [] h = "getNews" -> GetNews(disk)
    [] h = "getStaticPages" -> GetStaticPages(disk)
    [] h = "getTickers" -> GetTickers(disk)
    [] h = "getAds" -> GetAds(disk)
    [] h = "getUsers" -> GetUsers(disk)
    [] h = "getBreakingNewsByCategory" -> GetBreakingNewsByCategory(disk, in.category)
    [] h = "getFeaturedStoriesByCategory" -> GetFeaturedStoriesByCategory(disk, in.category)
    [] h = "getCategory" -> GetCategory(disk, in.category)
    [] h = "login" -> Login(disk, in.body.username, in.body.password)

\* The handler of a read route: none of them calls writeData or logActivity.
ReadRun(h, in, disk, t) ==
  IF h = "getPosters" THEN GetPostersRun(in, disk, t)
  ELSE LET r == ReadAnswer(h, in, disk)
       IN Done(disk, r.status, r.body, 0, <<>>)

Read(p, h, in) ==
  Arrive(p) /\ Settle(p, h, in, ReadRun(h, in, dataFile, now))

\* Reads among requests that write, concurrently.
NextRead ==
  \/ Tick
  \/ \E p \in Procs, ok \in BOOLEAN : UploadSettled(p, ok)
  \/ \E p \in Procs : PostUsers(p, [username |-> "admin", password |-> "pw1"])
  \/ \E p \in Procs : PostNews(p, NewsFull, {"image"})
  \/ \E p \in Procs : PostBreakingNews(p, BnFull, {"thumbnail"})
  \/ \E p \in Procs : PostPosters(p, [poster3Title |-> "P3"], {})
  \/ \E p \in Procs, h \in ListRoutes : Read(p, h, [files |-> {}])
  \/ \E p \in Procs, h \in CategoryRoutes, c \in {"world", "sports"} :
       Read(p, h, [category |-> c])
  \/ \E p \in Procs, u \in {"admin", "nouser"}, pw \in {"pw1", "x"} :
       Read(p, "login", [body |-> [username |-> u, password |-> pw]])

SpecRead == InitWith(CrudReqs, FALSE) /\ [][NextRead]_vars

\* C24: a list, a category query, the activity list and a login leave the
\* file exactly as it was: they call writeData and logActivity not once; and
\* the poster list answers 3 entries while the stored posters stay what they
\* were.
C24_ReadsLeaveDocument ==
  last.h \in ReadOnly
  => /\ dataFile = last.before
     /\ last.writes = 0
     /\ last.logged = <<>>
     /\ last.h = "getPosters" => Len(last.body) = PosterSlots

\* C24 (witness): the poster list answered 3 placeholders from a file that
\* holds no poster, written by a user create, while another request waits for
\* its upload.
C24_PlaceholdersNotStored ==
  /\ last.h = "getPosters"
  /\ last.prev.h = "postUsers"
  /\ Len(last.body) = 3
  /\ dataFile # <<>>
  /\ Coll(readData(dataFile), "posters") = <<>>
  /\ \E p \in Procs : req[p] # Idle

====
